---- MODULE Spec2Model ----
(***************************************************************************)
(* A model of core/ts/Poll.ts: message ingest, the state snapshot, the     *)
(* command state machine, the batch processor, vote tallying and the       *)
(* subsidy calculation of a MACI poll.                                     *)
(*                                                                         *)
(* Field elements are integers.  A hash is modelled symbolically as an      *)
(* injective constructor (a record wrapping the hashed value), a Merkle     *)
(* tree as the sequence of its inserted leaves together with its zero       *)
(* value, and its root as that sequence without trailing zero values (an    *)
(* explicit zero leaf hashes like an empty slot).  A vote message is a      *)
(* ciphertext: its data words carry the command, the signer and the shared  *)
(* key it was sealed with, and decryption fails under any other key.        *)
(***************************************************************************)
EXTENDS Integers, Sequences, FiniteSets, TLC

VARIABLES
  maciState,  \* the MaciState the polls are attached to
  polls,      \* poll id -> Poll object
  out,        \* what the last public call returned (or the error it threw)
  hist        \* poll id -> history of the calls made on the poll

vars == <<maciState, polls, out, hist>>

----------------------------------------------------------------------------
(* Bounds of the model *)

\* the largest number of messages a poll ingests
MaxMessages == 3
\* the number of sign-ups made before the polls are processed
NumSignUps == 1
\* the largest message batch size a poll is deployed with
MaxBatchSize == 2
\* voice credits every sign-up starts with
InitialCredits == 4
\* the largest number of messages ingested after the first processMessages call
MaxLateIngests == 1
\* the number of polls attached to one MaciState, and the largest number of
\* messages each of them ingests
NumPolls == 2
MaxLockMessages == 2
\* the largest number of messages a poll ingests where topups name any leaf
MaxTopupMessages == 2
\* the largest number of messages a poll ingests where its ballots are tallied
\* or processMessage is called on its own
FewMessages == 1
MaxCountMessages == 2

----------------------------------------------------------------------------
(* Keys, leaves, ballots, hashes *)

\* currentMessageBatchIndex before the first batch
undefined == -1

maxVoteOptions == 2
\* the subsidy parameters
MM == 50
WW == 4

CoordKey == 5
EphKey == 2
OtherEphKey == 3
BlankKey == 0
PadKey == 9
RandomKeys == {7, 8}
\* the values genRandomSalt returns: the salt the first batch starts from and
\* one other field element
Salts == {0, 1}
MessageBatchSizes == 1..MaxBatchSize

\* the key pair of the voter signed up at state index i, and the key a voter
\* changes to
UserKey(i) == 10 + i
NewUserKey(i) == 20 + i

\* ECDH: both sides derive the same key from their own private key and the
\* other side's public key (a key pair is one integer here)
GenEcdhSharedKey(privKey, pubKey) == privKey * pubKey

StateLeaf(pubKey, voiceCreditBalance, timestamp) ==
  [pubKey |-> pubKey, voiceCreditBalance |-> voiceCreditBalance, timestamp |-> timestamp]

blankStateLeaf == StateLeaf(BlankKey, 0, 0)

GenBlankBallot(numOptions) ==
  [nonce |-> 0, votes |-> [k \in 1..numOptions |-> 0]]

HashLeaf(leaf) == [hashOf |-> leaf]
HashBallot(ballot) == [hashOf |-> ballot]
HashMessage(message, encPubKey) == [hashOf |-> message, key |-> encPubKey]
NOTHING_UP_MY_SLEEVE == [hashOf |-> [msgType |-> 0, data |-> <<>>], key |-> 0]

\* F applied to the value of e
Bind(e, F(_)) == CHOOSE y \in {F(x) : x \in {e}} : TRUE

\* a JavaScript object used as a map from keys to values
EmptyMap == [k \in {} |-> 0]
MapSet(map, key, value) ==
  [k \in DOMAIN map \cup {key} |-> IF k = key THEN value ELSE map[k]]
\* map[key], undefined when the key is not set
MapGet(map, key) == IF key \in DOMAIN map THEN map[key] ELSE undefined

----------------------------------------------------------------------------
(* IncrementalQuinTree: the leaves inserted so far, index 0 first *)

NewTree(zeroValue) == [defined |-> TRUE, zeroValue |-> zeroValue, leaves |-> <<>>]
\* a tree field the constructor leaves unset
NoTree == [defined |-> FALSE, zeroValue |-> HashLeaf(blankStateLeaf), leaves |-> <<>>]

NextIndex(tree) == Len(tree.leaves)
TreeInsert(tree, leaf) == [tree EXCEPT !.leaves = Append(@, leaf)]
TreeUpdate(tree, index, leaf) == [tree EXCEPT !.leaves[index + 1] = leaf]
TreeLeaf(tree, index) == tree.leaves[index + 1]

RECURSIVE StripZeros(_, _)
StripZeros(leaves, zeroValue) ==
  IF leaves # <<>> /\ leaves[Len(leaves)] = zeroValue
  THEN StripZeros(SubSeq(leaves, 1, Len(leaves) - 1), zeroValue)
  ELSE leaves

TreeRoot(tree) == [rootOf |-> StripZeros(tree.leaves, tree.zeroValue)]

RECURSIVE TreeInsertAll(_, _)
TreeInsertAll(tree, leaves) ==
  IF leaves = <<>> THEN tree
  ELSE TreeInsertAll(TreeInsert(tree, Head(leaves)), Tail(leaves))

----------------------------------------------------------------------------
(* Messages and commands *)

\* data words of a vote message: stateIndex, newPubKey, voteOptionIndex,
\* newVoteWeight, nonce, pollId, salt, then the signer's key and the shared
\* key the words are sealed with
NewVoteMessage(stateIndex, newPubKey, voteOptionIndex, newVoteWeight, nonce, signer, sharedKey) ==
  [msgType |-> 1,
   data |-> <<stateIndex, newPubKey, voteOptionIndex, newVoteWeight, nonce, 0, 0, signer, sharedKey>>]

NewTopupMessage(stateIndex, amount) ==
  [msgType |-> 2, data |-> <<stateIndex, amount, 0, 0, 0, 0, 0, 0, 0>>]

PCommand(stateIndex, newPubKey, voteOptionIndex, newVoteWeight, nonce, pollId, salt) ==
  [cmdType |-> 1, stateIndex |-> stateIndex, newPubKey |-> newPubKey,
   voteOptionIndex |-> voteOptionIndex, newVoteWeight |-> newVoteWeight,
   nonce |-> nonce, pollId |-> pollId, salt |-> salt]

TCommand(stateIndex, amount, pollId) ==
  [cmdType |-> 2, stateIndex |-> stateIndex, amount |-> amount, pollId |-> pollId]

\* PCommand.decrypt: throws unless the message was sealed with sharedKey
Decrypt(message, sharedKey) ==
  LET d == message.data IN
  IF d[9] = sharedKey
  THEN [ok |-> TRUE,
        command |-> PCommand(d[1], d[2], d[3], d[4], d[5], d[6], d[7]),
        signature |-> d[8]]
  ELSE [ok |-> FALSE, command |-> PCommand(0, 0, 0, 0, 0, 0, 0), signature |-> 0]

\* command.verifySignature(signature, pubKey)
VerifySignature(signature, pubKey) == signature = pubKey

SealedFor == GenEcdhSharedKey(EphKey, CoordKey)

\* the vote messages voters publish, each with the key it is published with:
\* a vote that spends every credit, a second vote on the same option that
\* only a topup makes affordable, a key change, and a message published with
\* a key it was not sealed for
VotePool ==
  { <<NewVoteMessage(1, UserKey(1), 0, 2, 1, UserKey(1), SealedFor), EphKey>>,
    <<NewVoteMessage(1, UserKey(1), 0, 3, 2, UserKey(1), SealedFor), EphKey>>,
    <<NewVoteMessage(1, NewUserKey(1), 1, 1, 1, UserKey(1), SealedFor), EphKey>>,
    <<NewVoteMessage(1, UserKey(1), 0, 1, 1, UserKey(1), SealedFor), OtherEphKey>> }

\* the topup messages voters publish
TopupPool ==
  { NewTopupMessage(1, 5) }

----------------------------------------------------------------------------
(* MaciState and the Poll constructor *)

RECURSIVE SignedUpLeaves(_)
SignedUpLeaves(n) ==
  IF n = 0 THEN <<blankStateLeaf>>
  ELSE Append(SignedUpLeaves(n - 1), StateLeaf(UserKey(n), InitialCredits, 0))

RECURSIVE HashLeaves(_)
HashLeaves(leaves) ==
  IF leaves = <<>> THEN <<>>
  ELSE <<HashLeaf(Head(leaves))>> \o HashLeaves(Tail(leaves))

NewMaciState(numSignUps) ==
  LET leaves == SignedUpLeaves(numSignUps) IN
  [stateLeaves |-> leaves,
   stateTree |-> TreeInsertAll(NewTree(HashLeaf(blankStateLeaf)), HashLeaves(leaves)),
   numSignUps |-> numSignUps,
   pollBeingProcessed |-> FALSE,
   currentPollBeingProcessed |-> undefined]

BatchSizes(messageBatchSize, tallyBatchSize, subsidyBatchSize) ==
  [messageBatchSize |-> messageBatchSize, tallyBatchSize |-> tallyBatchSize,
   subsidyBatchSize |-> subsidyBatchSize]

NewPoll(coordinatorKeypair, batchSizes, pollId) ==
  [coordinatorKeypair |-> coordinatorKeypair,
   batchSizes |-> batchSizes,
   maxValues |-> [maxVoteOptions |-> maxVoteOptions],
   pollId |-> pollId,
   ballots |-> <<GenBlankBallot(maxVoteOptions)>>,
   ballotTree |-> NoTree,
   messages |-> <<>>,
   messageTree |-> NewTree(NOTHING_UP_MY_SLEEVE),
   commands |-> <<>>,
   encPubKeys |-> <<>>,
   stateCopied |-> FALSE,
   stateLeaves |-> <<blankStateLeaf>>,
   stateTree |-> NoTree,
   numBatchesProcessed |-> 0,
   currentMessageBatchIndex |-> undefined,
   sbSalts |-> EmptyMap,
   resultRootSalts |-> EmptyMap,
   preVOSpentVoiceCreditsRootSalts |-> EmptyMap,
   spentVoiceCreditSubtotalSalts |-> EmptyMap,
   tallyResult |-> [k \in 1..maxVoteOptions |-> 0],
   perVOSpentVoiceCredits |-> [k \in 1..maxVoteOptions |-> 0],
   numBatchesTallied |-> 0,
   totalSpentVoiceCredits |-> 0,
   subsidy |-> [k \in 1..maxVoteOptions |-> 0],
   subsidySalts |-> EmptyMap,
   rbi |-> 0,
   cbi |-> 0,
   emptyBallot |-> GenBlankBallot(maxVoteOptions)]

----------------------------------------------------------------------------
(* Message ingest *)

\* topupMessage, its assertions holding
TopupMessageOp(p, message) ==
  [p EXCEPT
     !.messages = Append(@, message),
     !.encPubKeys = Append(@, PadKey),
     !.messageTree = TreeInsert(@, HashMessage(message, PadKey)),
     !.commands = Append(@, TCommand(message.data[1], message.data[2], p.pollId))]

\* publishMessage keeping no command for a message it cannot decrypt
PublishMessageDropsFailed(p, message, encPubKey, randomKey) ==
  LET dec == Decrypt(message, GenEcdhSharedKey(p.coordinatorKeypair, encPubKey)) IN
  [p EXCEPT
     !.encPubKeys = Append(@, encPubKey),
     !.messages = Append(@, message),
     !.messageTree = TreeInsert(@, HashMessage(message, encPubKey)),
     !.commands = IF dec.ok THEN Append(@, dec.command) ELSE @]

\* publishMessage, its assertions holding; randomKey is the key of the
\* new Keypair() the empty command is built with when decryption fails
PublishMessageOp(p, message, encPubKey, randomKey) ==
  LET sharedKey == GenEcdhSharedKey(p.coordinatorKeypair, encPubKey)
      dec == Decrypt(message, sharedKey)
      command == IF dec.ok THEN dec.command
                 ELSE PCommand(0, randomKey, 0, 0, 0, 0, 0)
  IN [p EXCEPT
        !.encPubKeys = Append(@, encPubKey),
        !.messages = Append(@, message),
        !.messageTree = TreeInsert(@, HashMessage(message, encPubKey)),
        !.commands = Append(@, command)]

\* the size of the field, scaled down: every key, hash input and data word
\* the voters send is below it
SNARK_FIELD_SIZE == 100

\* the two coordinates of a public key (a key is one integer here, and both
\* coordinates are that integer)
RawPubKey(pubKey) == <<pubKey, pubKey>>

IngestThrown(p, error) == [ok |-> FALSE, error |-> error, poll |-> p]

\* topupMessage(message) storing the message before its assertions
TopupMessageCallStoresFirst(p, message) ==
  IF message.msgType # 2
  THEN IngestThrown([p EXCEPT !.messages = Append(@, message)],
                    "A Topup message must have msgType 2")
  ELSE IF \E i \in DOMAIN message.data : ~(message.data[i] < SNARK_FIELD_SIZE)
  THEN IngestThrown([p EXCEPT !.messages = Append(@, message)],
                    "The message data is not in the correct range")
  ELSE [ok |-> TRUE, error |-> "none", poll |-> TopupMessageOp(p, message)]

\* topupMessage(message)
TopupMessageCall(p, message) ==
  IF message.msgType # 2
  THEN IngestThrown(p, "A Topup message must have msgType 2")
  ELSE IF \E i \in DOMAIN message.data : ~(message.data[i] < SNARK_FIELD_SIZE)
  THEN IngestThrown(p, "The message data is not in the correct range")
  ELSE [ok |-> TRUE, error |-> "none", poll |-> TopupMessageOp(p, message)]

\* publishMessage(message, encPubKey)
PublishMessageCall(p, message, encPubKey, randomKey) ==
  IF message.msgType # 1
  THEN IngestThrown(p, "A vote or key change message must have msgType 1")
  ELSE IF ~(RawPubKey(encPubKey)[1] < SNARK_FIELD_SIZE
            /\ RawPubKey(encPubKey)[2] < SNARK_FIELD_SIZE)
  THEN IngestThrown(p, "The public key is not in the correct range")
  ELSE IF \E i \in DOMAIN message.data : ~(message.data[i] < SNARK_FIELD_SIZE)
  THEN IngestThrown(p, "The message data is not in the correct range")
  ELSE [ok |-> TRUE, error |-> "none",
        poll |-> PublishMessageOp(p, message, encPubKey, randomKey)]

----------------------------------------------------------------------------
(* State snapshot *)

\* the ballot fill of the snapshot leaving the ballot tree as it is
FillBallotsOnly(p, numLeaves) ==
  [p EXCEPT !.ballots =
     [i \in 1..(IF Len(@) < numLeaves THEN numLeaves ELSE Len(@)) |->
        IF i <= Len(@) THEN @[i] ELSE p.emptyBallot]]

RECURSIVE FillBallots(_, _)
FillBallots(p, numLeaves) ==
  IF Len(p.ballots) < numLeaves
  THEN FillBallots([p EXCEPT !.ballotTree = TreeInsert(@, HashBallot(p.emptyBallot)),
                             !.ballots = Append(@, p.emptyBallot)],
                   numLeaves)
  ELSE p

\* copyStateFromMaci leaving stateCopied as it is
CopyStateFromMaciForgetsFlag(p, maci) ==
  LET emptyBallotHash == HashBallot(p.emptyBallot)
      copied == [p EXCEPT
                   !.stateLeaves = maci.stateLeaves,
                   !.stateTree = maci.stateTree,
                   !.ballotTree = TreeInsert(NewTree(emptyBallotHash), emptyBallotHash)]
  IN FillBallots(copied, Len(copied.stateLeaves))

\* copyStateFromMaci
CopyStateFromMaci(p, maci) ==
  LET emptyBallotHash == HashBallot(p.emptyBallot)
      copied == [p EXCEPT
                   !.stateLeaves = maci.stateLeaves,
                   !.stateTree = maci.stateTree,
                   !.ballotTree = TreeInsert(NewTree(emptyBallotHash), emptyBallotHash)]
  IN [FillBallots(copied, Len(copied.stateLeaves)) EXCEPT !.stateCopied = TRUE]

----------------------------------------------------------------------------
(* Command state machine *)

Rejected(error) == [ok |-> FALSE, error |-> error]

\* voice credits charged per vote instead of per squared vote
LinearCreditsLeft(voiceCreditBalance, originalVoteWeight, newVoteWeight) ==
  voiceCreditBalance + originalVoteWeight - newVoteWeight

\* the voice credits left after replacing the weight of one vote option
VoiceCreditsLeft(voiceCreditBalance, originalVoteWeight, newVoteWeight) ==
  voiceCreditBalance + originalVoteWeight * originalVoteWeight
    - newVoteWeight * newVoteWeight

\* the rejection rules with the nonce looked at before the signature
CommandErrorNonceFirst(p, command, signature) ==
  LET stateLeafIndex == command.stateIndex IN
  IF \/ stateLeafIndex >= Len(p.ballots)
     \/ stateLeafIndex < 1
     \/ stateLeafIndex >= NextIndex(p.stateTree)
  THEN "InvalidStateLeafIndex"
  ELSE
    LET stateLeaf == p.stateLeaves[stateLeafIndex + 1]
        ballot == p.ballots[stateLeafIndex + 1]
    IN
    IF command.nonce # ballot.nonce + 1 THEN "InvalidNonce"
    ELSE IF ~VerifySignature(signature, stateLeaf.pubKey) THEN "InvalidSignature"
    ELSE IF \/ command.voteOptionIndex < 0
            \/ command.voteOptionIndex >= p.maxValues.maxVoteOptions
         THEN "InvalidVoteOptionIndex"
    ELSE IF VoiceCreditsLeft(stateLeaf.voiceCreditBalance,
                             ballot.votes[command.voteOptionIndex + 1],
                             command.newVoteWeight) < 0
         THEN "InsufficientVoiceCredits"
    ELSE "none"

\* the rejection rules refusing a vote that spends the last credit
CommandErrorRejectsZero(p, command, signature) ==
  LET stateLeafIndex == command.stateIndex IN
  IF \/ stateLeafIndex >= Len(p.ballots)
     \/ stateLeafIndex < 1
     \/ stateLeafIndex >= NextIndex(p.stateTree)
  THEN "InvalidStateLeafIndex"
  ELSE
    LET stateLeaf == p.stateLeaves[stateLeafIndex + 1]
        ballot == p.ballots[stateLeafIndex + 1]
    IN
    IF ~VerifySignature(signature, stateLeaf.pubKey) THEN "InvalidSignature"
    ELSE IF command.nonce # ballot.nonce + 1 THEN "InvalidNonce"
    ELSE IF \/ command.voteOptionIndex < 0
            \/ command.voteOptionIndex >= p.maxValues.maxVoteOptions
         THEN "InvalidVoteOptionIndex"
    ELSE IF VoiceCreditsLeft(stateLeaf.voiceCreditBalance,
                             ballot.votes[command.voteOptionIndex + 1],
                             command.newVoteWeight) <= 0
         THEN "InsufficientVoiceCredits"
    ELSE "none"

\* the rejection rules of processMessage for a decrypted command, in order
CommandError(p, command, signature) ==
  LET stateLeafIndex == command.stateIndex IN
  IF \/ stateLeafIndex >= Len(p.ballots)
     \/ stateLeafIndex < 1
     \/ stateLeafIndex >= NextIndex(p.stateTree)
  THEN "InvalidStateLeafIndex"
  ELSE
    LET stateLeaf == p.stateLeaves[stateLeafIndex + 1]
        ballot == p.ballots[stateLeafIndex + 1]
    IN
    IF ~VerifySignature(signature, stateLeaf.pubKey) THEN "InvalidSignature"
    ELSE IF command.nonce # ballot.nonce + 1 THEN "InvalidNonce"
    ELSE IF \/ command.voteOptionIndex < 0
            \/ command.voteOptionIndex >= p.maxValues.maxVoteOptions
         THEN "InvalidVoteOptionIndex"
    ELSE IF VoiceCreditsLeft(stateLeaf.voiceCreditBalance,
                             ballot.votes[command.voteOptionIndex + 1],
                             command.newVoteWeight) < 0
         THEN "InsufficientVoiceCredits"
    ELSE "none"

\* the Merkle path of a leaf: the tree it was taken from and the index
GenMerklePath(tree, index) == [index |-> index, root |-> TreeRoot(tree)]

\* the path of one vote option in a fresh tree holding the given votes
VoteWeightPath(votes, index) == [index |-> index, root |-> [rootOf |-> StripZeros(votes, 0)]]

\* processMessage
ProcessMessage(p, message, encPubKey) ==
  LET sharedKey == GenEcdhSharedKey(p.coordinatorKeypair, encPubKey)
      dec == Decrypt(message, sharedKey)
  IN
  IF ~dec.ok THEN Rejected("FailedDecryption")
  ELSE
    LET command == dec.command
        error == CommandError(p, command, dec.signature)
    IN
    IF error # "none" THEN Rejected(error)
    ELSE
      LET stateLeafIndex == command.stateIndex
          stateLeaf == p.stateLeaves[stateLeafIndex + 1]
          ballot == p.ballots[stateLeafIndex + 1]
          voteOptionIndex == command.voteOptionIndex
          originalVoteWeight == ballot.votes[voteOptionIndex + 1]
          voiceCreditsLeft == VoiceCreditsLeft(stateLeaf.voiceCreditBalance,
                                               originalVoteWeight, command.newVoteWeight)
      IN [ok |-> TRUE,
          error |-> "none",
          stateLeafIndex |-> stateLeafIndex,
          newStateLeaf |-> [stateLeaf EXCEPT !.voiceCreditBalance = voiceCreditsLeft,
                                             !.pubKey = command.newPubKey],
          originalStateLeaf |-> stateLeaf,
          originalStateLeafPathElements |-> GenMerklePath(p.stateTree, stateLeafIndex),
          originalVoteWeight |-> originalVoteWeight,
          originalVoteWeightsPathElements |-> VoteWeightPath(ballot.votes, voteOptionIndex),
          newBallot |-> [ballot EXCEPT !.nonce = @ + 1,
                                       !.votes[voteOptionIndex + 1] = command.newVoteWeight],
          originalBallot |-> ballot,
          originalBallotPathElements |-> GenMerklePath(p.ballotTree, stateLeafIndex),
          command |-> command]

----------------------------------------------------------------------------
(* Batch processor *)

\* hasUnprocessedMessages forgetting the batch a remainder of messages fills
HasUnprocessedMessagesFloor(p) ==
  LET batchSize == p.batchSizes.messageBatchSize
      n == Len(p.messages)
      floorBatches == IF n <= batchSize THEN 1 ELSE n \div batchSize
  IN p.numBatchesProcessed < floorBatches

\* hasUnprocessedMessages
HasUnprocessedMessages(p) ==
  LET batchSize == p.batchSizes.messageBatchSize
      n == Len(p.messages)
      floorBatches == IF n <= batchSize THEN 1 ELSE n \div batchSize
      totalBatches == IF n > batchSize /\ n % batchSize > 0
                      THEN floorBatches + 1 ELSE floorBatches
  IN p.numBatchesProcessed < totalBatches

\* the batch index that forgets a message count that fills its last batch
LastMultiple(numMessages, batchSize) ==
  numMessages - (numMessages % batchSize)

\* the index of the batch the first processMessages call starts with
FirstBatchIndex(numMessages, batchSize) ==
  LET r == numMessages % batchSize IN
  IF numMessages > 0
  THEN (IF r = 0 THEN numMessages - batchSize ELSE numMessages - r)
  ELSE numMessages

\* an array padded with copies of its last element to a multiple of batchSize,
\* then cut to the batch starting at index
RECURSIVE PadWithLast(_, _)
PadWithLast(array, batchSize) ==
  IF Len(array) % batchSize > 0
  THEN PadWithLast(Append(array, array[Len(array)]), batchSize)
  ELSE array

Slice(array, from, to) ==
  SubSeq(array, from + 1, IF to < Len(array) THEN to ELSE Len(array))

RECURSIVE PadMessageTree(_, _)
PadMessageTree(tree, upTo) ==
  IF NextIndex(tree) < upTo
  THEN PadMessageTree(TreeInsert(tree, tree.zeroValue), upTo)
  ELSE tree

Hash3(a, b, c) == [hash3 |-> <<a, b, c>>]

\* genProcessMessagesCircuitInputsPartial: the poll with its message tree
\* padded, and the partial circuit inputs
GenProcessMessagesCircuitInputsPartial(p, maci, index) ==
  LET messageBatchSize == p.batchSizes.messageBatchSize
      padded == [p EXCEPT !.messageTree = PadMessageTree(@, index + messageBatchSize)]
      batchEndIndex == IF index + messageBatchSize > Len(p.messages)
                       THEN Len(p.messages) ELSE index + messageBatchSize
      currentSbSalt == p.sbSalts[p.currentMessageBatchIndex]
  IN [poll |-> padded,
      inputs |->
        [msgs |-> Slice(PadWithLast(p.messages, messageBatchSize), index, index + messageBatchSize),
         encPubKeys |-> Slice(PadWithLast(p.encPubKeys, messageBatchSize), index, index + messageBatchSize),
         msgRoot |-> TreeRoot(padded.messageTree),
         msgSubrootPathElements |-> [from |-> index, to |-> index + messageBatchSize,
                                     root |-> TreeRoot(padded.messageTree)],
         batchStartIndex |-> index,
         batchEndIndex |-> batchEndIndex,
         numSignUps |-> maci.numSignUps,
         currentStateRoot |-> TreeRoot(p.stateTree),
         currentBallotRoot |-> TreeRoot(p.ballotTree),
         currentSbCommitment |-> Hash3(TreeRoot(p.stateTree), TreeRoot(p.ballotTree), currentSbSalt),
         currentSbSalt |-> currentSbSalt]]

\* what one slot of the batch loop sees of the poll
Snapshot(p) ==
  [stateLeaves |-> p.stateLeaves, ballots |-> p.ballots,
   stateTree |-> p.stateTree, ballotTree |-> p.ballotTree]

\* one entry of the six witness arrays
WitnessEntry(stateLeaf, stateLeafPath, ballot, ballotPath, voteWeight, voteWeightPath) ==
  [stateLeaf |-> stateLeaf, stateLeafPathElements |-> stateLeafPath,
   ballot |-> ballot, ballotPathElements |-> ballotPath,
   voteWeight |-> voteWeight, voteWeightPathElements |-> voteWeightPath]

\* the blank data of a rejected command and of a slot without a message
BlankEntry(p) ==
  WitnessEntry(p.stateLeaves[1], GenMerklePath(p.stateTree, 0),
               p.ballots[1], GenMerklePath(p.ballotTree, 0),
               p.ballots[1].votes[1], VoteWeightPath(<<p.ballots[1].votes[1]>>, 0))

\* a vote slot that gives a rejected command the data of the last state
\* leaf instead of the blank data
VoteSlotRejectedAtLast(p, message, encPubKey) ==
  LET r == ProcessMessage(p, message, encPubKey)
      last == Len(p.stateLeaves)
  IN
  IF r.ok
  THEN [poll |-> [p EXCEPT
                    !.stateLeaves[r.stateLeafIndex + 1] = r.newStateLeaf,
                    !.stateTree = TreeUpdate(@, r.stateLeafIndex, HashLeaf(r.newStateLeaf)),
                    !.ballots[r.stateLeafIndex + 1] = r.newBallot,
                    !.ballotTree = TreeUpdate(@, r.stateLeafIndex, HashBallot(r.newBallot))],
        entry |-> <<WitnessEntry(r.originalStateLeaf, r.originalStateLeafPathElements,
                                 r.originalBallot, r.originalBallotPathElements,
                                 r.originalVoteWeight, r.originalVoteWeightsPathElements)>>,
        kind |-> "vote", error |-> "none", command |-> r.command]
  ELSE [poll |-> p,
        entry |-> <<WitnessEntry(p.stateLeaves[last], GenMerklePath(p.stateTree, last - 1),
                                 p.ballots[last], GenMerklePath(p.ballotTree, last - 1),
                                 p.ballots[last].votes[1],
                                 VoteWeightPath(<<p.ballots[last].votes[1]>>, 0))>>,
        kind |-> "rejected", error |-> r.error, command |-> PCommand(0, 0, 0, 0, 0, 0, 0)]

\* a vote slot that uses up the nonce of a vote rejected for its cost
VoteSlotCountsRejected(p, message, encPubKey) ==
  LET r == ProcessMessage(p, message, encPubKey)
      command == Decrypt(message, GenEcdhSharedKey(p.coordinatorKeypair, encPubKey)).command
      counted == [p.ballots[command.stateIndex + 1] EXCEPT !.nonce = @ + 1]
  IN
  IF r.ok
  THEN [poll |-> [p EXCEPT
                    !.stateLeaves[r.stateLeafIndex + 1] = r.newStateLeaf,
                    !.stateTree = TreeUpdate(@, r.stateLeafIndex, HashLeaf(r.newStateLeaf)),
                    !.ballots[r.stateLeafIndex + 1] = r.newBallot,
                    !.ballotTree = TreeUpdate(@, r.stateLeafIndex, HashBallot(r.newBallot))],
        entry |-> <<WitnessEntry(r.originalStateLeaf, r.originalStateLeafPathElements,
                                 r.originalBallot, r.originalBallotPathElements,
                                 r.originalVoteWeight, r.originalVoteWeightsPathElements)>>,
        kind |-> "vote", error |-> "none", command |-> r.command]
  ELSE [poll |-> IF r.error = "InsufficientVoiceCredits"
                 THEN [p EXCEPT
                         !.ballots[command.stateIndex + 1] = counted,
                         !.ballotTree = TreeUpdate(@, command.stateIndex, HashBallot(counted))]
                 ELSE p,
        entry |-> <<BlankEntry(p)>>,
        kind |-> "rejected", error |-> r.error, command |-> PCommand(0, 0, 0, 0, 0, 0, 0)]

\* case 1 of the loop body: a vote or key-change message
VoteSlot(p, message, encPubKey) ==
  LET r == ProcessMessage(p, message, encPubKey) IN
  IF r.ok
  THEN [poll |-> [p EXCEPT
                    !.stateLeaves[r.stateLeafIndex + 1] = r.newStateLeaf,
                    !.stateTree = TreeUpdate(@, r.stateLeafIndex, HashLeaf(r.newStateLeaf)),
                    !.ballots[r.stateLeafIndex + 1] = r.newBallot,
                    !.ballotTree = TreeUpdate(@, r.stateLeafIndex, HashBallot(r.newBallot))],
        entry |-> <<WitnessEntry(r.originalStateLeaf, r.originalStateLeafPathElements,
                                 r.originalBallot, r.originalBallotPathElements,
                                 r.originalVoteWeight, r.originalVoteWeightsPathElements)>>,
        kind |-> "vote", error |-> "none", command |-> r.command]
  ELSE [poll |-> p, entry |-> <<BlankEntry(p)>>,
        kind |-> "rejected", error |-> r.error, command |-> PCommand(0, 0, 0, 0, 0, 0, 0)]

\* a topup slot that keeps the amount of a topup naming no leaf
TopupSlotKeepsAmount(p, message) ==
  LET outOfRange == message.data[1] >= Len(p.ballots)
      stateIndex == IF outOfRange THEN 0 ELSE message.data[1]
      amount == message.data[2]
      stateLeaf == p.stateLeaves[stateIndex + 1]
      newStateLeaf == [stateLeaf EXCEPT !.voiceCreditBalance = @ + amount]
      currentBallot == p.ballots[stateIndex + 1]
  IN [poll |-> [p EXCEPT
                  !.stateLeaves[stateIndex + 1] = newStateLeaf,
                  !.stateTree = TreeUpdate(@, stateIndex, HashLeaf(newStateLeaf))],
      entry |-> <<WitnessEntry(stateLeaf, GenMerklePath(p.stateTree, stateIndex),
                               currentBallot, GenMerklePath(p.ballotTree, stateIndex),
                               currentBallot.votes[1], VoteWeightPath(currentBallot.votes, 0))>>,
      kind |-> "topup", error |-> "none",
      command |-> TCommand(stateIndex, amount, p.pollId)]

\* a topup slot that leaves the state tree as it is
TopupSlotLeafOnly(p, message) ==
  LET outOfRange == message.data[1] >= Len(p.ballots)
      stateIndex == IF outOfRange THEN 0 ELSE message.data[1]
      amount == IF outOfRange THEN 0 ELSE message.data[2]
      stateLeaf == p.stateLeaves[stateIndex + 1]
      newStateLeaf == [stateLeaf EXCEPT !.voiceCreditBalance = @ + amount]
      currentBallot == p.ballots[stateIndex + 1]
  IN [poll |-> [p EXCEPT !.stateLeaves[stateIndex + 1] = newStateLeaf],
      entry |-> <<WitnessEntry(stateLeaf, GenMerklePath(p.stateTree, stateIndex),
                               currentBallot, GenMerklePath(p.ballotTree, stateIndex),
                               currentBallot.votes[1], VoteWeightPath(currentBallot.votes, 0))>>,
      kind |-> "topup", error |-> "none",
      command |-> TCommand(stateIndex, amount, p.pollId)]

\* a topup slot that records the state leaf after it has credited it
TopupSlotRecordsAfter(p, message) ==
  LET outOfRange == message.data[1] >= Len(p.ballots)
      stateIndex == IF outOfRange THEN 0 ELSE message.data[1]
      amount == IF outOfRange THEN 0 ELSE message.data[2]
      stateLeaf == p.stateLeaves[stateIndex + 1]
      newStateLeaf == [stateLeaf EXCEPT !.voiceCreditBalance = @ + amount]
      currentBallot == p.ballots[stateIndex + 1]
  IN [poll |-> [p EXCEPT
                  !.stateLeaves[stateIndex + 1] = newStateLeaf,
                  !.stateTree = TreeUpdate(@, stateIndex, HashLeaf(newStateLeaf))],
      entry |-> <<WitnessEntry(newStateLeaf, GenMerklePath(p.stateTree, stateIndex),
                               currentBallot, GenMerklePath(p.ballotTree, stateIndex),
                               currentBallot.votes[1], VoteWeightPath(currentBallot.votes, 0))>>,
      kind |-> "topup", error |-> "none",
      command |-> TCommand(stateIndex, amount, p.pollId)]

\* case 2 of the loop body: a topup message
TopupSlot(p, message) ==
  LET outOfRange == message.data[1] >= Len(p.ballots)
      stateIndex == IF outOfRange THEN 0 ELSE message.data[1]
      amount == IF outOfRange THEN 0 ELSE message.data[2]
      stateLeaf == p.stateLeaves[stateIndex + 1]
      newStateLeaf == [stateLeaf EXCEPT !.voiceCreditBalance = @ + amount]
      currentBallot == p.ballots[stateIndex + 1]
  IN [poll |-> [p EXCEPT
                  !.stateLeaves[stateIndex + 1] = newStateLeaf,
                  !.stateTree = TreeUpdate(@, stateIndex, HashLeaf(newStateLeaf))],
      entry |-> <<WitnessEntry(stateLeaf, GenMerklePath(p.stateTree, stateIndex),
                               currentBallot, GenMerklePath(p.ballotTree, stateIndex),
                               currentBallot.votes[1], VoteWeightPath(currentBallot.votes, 0))>>,
      kind |-> "topup", error |-> "none",
      command |-> TCommand(stateIndex, amount, p.pollId)]

\* the body of the batch loop for message index idx
Slot(p, idx) ==
  IF idx < Len(p.messages)
  THEN LET message == p.messages[idx + 1]
           encPubKey == p.encPubKeys[idx + 1]
       IN CASE message.msgType = 1 -> VoteSlot(p, message, encPubKey)
            [] message.msgType = 2 -> TopupSlot(p, message)
            [] OTHER -> [poll |-> p, entry |-> <<>>, kind |-> "skipped", error |-> "none",
                         command |-> PCommand(0, 0, 0, 0, 0, 0, 0)]
  ELSE [poll |-> p, entry |-> <<BlankEntry(p)>>, kind |-> "blank", error |-> "none",
        command |-> PCommand(0, 0, 0, 0, 0, 0, 0)]

\* one iteration of a batch loop that walks the batch from its first index up
LoopStepAscending(acc, i) ==
  LET p == acc.poll
      idx == p.currentMessageBatchIndex + i
  IN Bind(Slot(p, idx),
          LAMBDA s :
            [poll |-> s.poll,
             entries |-> s.entry \o acc.entries,
             slots |-> Append(acc.slots,
                         [idx |-> idx, kind |-> s.kind, error |-> s.error,
                          command |-> s.command, entry |-> s.entry,
                          before |-> Snapshot(p), after |-> Snapshot(s.poll)])])

\* one iteration of the batch loop: acc holds the poll, the witness entries
\* unshifted so far and the record of every slot handled
LoopStep(acc, i) ==
  LET p == acc.poll
      idx == p.currentMessageBatchIndex + p.batchSizes.messageBatchSize - i - 1
  IN Bind(Slot(p, idx),
          LAMBDA s :
            [poll |-> s.poll,
             entries |-> s.entry \o acc.entries,
             slots |-> Append(acc.slots,
                         [idx |-> idx, kind |-> s.kind, error |-> s.error,
                          command |-> s.command, entry |-> s.entry,
                          before |-> Snapshot(p), after |-> Snapshot(s.poll)])])

\* the batch loop from iteration i on
RECURSIVE BatchLoop(_, _)
BatchLoop(acc, i) ==
  IF i >= acc.poll.batchSizes.messageBatchSize THEN acc
  ELSE Bind(LoopStep(acc, i), LAMBDA next : BatchLoop(next, i + 1))

NoInputs == [msgs |-> <<>>]

Thrown(p, maci, error) ==
  [ok |-> FALSE, error |-> error, poll |-> p, maci |-> maci,
   inputs |-> NoInputs, slots |-> <<>>]

\* the salt the regeneration loop of processMessages can end with
NewSbSaltAllowed(sbSalts, batchIndex, salt) ==
  ~(batchIndex \in DOMAIN sbSalts /\ sbSalts[batchIndex] = salt)

\* the first-batch part of processMessages, after the lock is taken
StartFirstBatch(p) ==
  LET index == FirstBatchIndex(Len(p.messages), p.batchSizes.messageBatchSize) IN
  [p EXCEPT !.currentMessageBatchIndex = index,
            !.sbSalts = MapSet(@, index, 0)]

\* the end of processMessages committing to the roots in the wrong order
FinishBatchSwapsRoots(p, maci, salt) ==
  LET batchSize == p.batchSizes.messageBatchSize
      counted == [p EXCEPT
                    !.numBatchesProcessed = @ + 1,
                    !.currentMessageBatchIndex = IF @ > 0 THEN @ - batchSize ELSE @]
      salted == [counted EXCEPT !.sbSalts = MapSet(@, counted.currentMessageBatchIndex, salt)]
  IN [poll |-> salted,
      maci |-> IF salted.numBatchesProcessed * batchSize >= Len(salted.messages)
               THEN [maci EXCEPT !.pollBeingProcessed = FALSE]
               ELSE maci,
      newSbSalt |-> salt,
      newSbCommitment |-> Hash3(TreeRoot(salted.ballotTree), TreeRoot(salted.stateTree), salt)]

\* the end of processMessages releasing the lock one batch late
FinishBatchHoldsLock(p, maci, salt) ==
  LET batchSize == p.batchSizes.messageBatchSize
      counted == [p EXCEPT
                    !.numBatchesProcessed = @ + 1,
                    !.currentMessageBatchIndex = IF @ > 0 THEN @ - batchSize ELSE @]
      salted == [counted EXCEPT !.sbSalts = MapSet(@, counted.currentMessageBatchIndex, salt)]
  IN [poll |-> salted,
      maci |-> IF salted.numBatchesProcessed * batchSize > Len(salted.messages)
               THEN [maci EXCEPT !.pollBeingProcessed = FALSE]
               ELSE maci,
      newSbSalt |-> salt,
      newSbCommitment |-> Hash3(TreeRoot(salted.stateTree), TreeRoot(salted.ballotTree), salt)]

\* the end of processMessages committing to the roots with the salt of the
\* batch it has just processed
FinishBatchCommitsOldSalt(p, maci, salt) ==
  LET batchSize == p.batchSizes.messageBatchSize
      counted == [p EXCEPT
                    !.numBatchesProcessed = @ + 1,
                    !.currentMessageBatchIndex = IF @ > 0 THEN @ - batchSize ELSE @]
      salted == [counted EXCEPT !.sbSalts = MapSet(@, counted.currentMessageBatchIndex, salt)]
  IN [poll |-> salted,
      maci |-> IF salted.numBatchesProcessed * batchSize >= Len(salted.messages)
               THEN [maci EXCEPT !.pollBeingProcessed = FALSE]
               ELSE maci,
      newSbSalt |-> salt,
      newSbCommitment |-> Hash3(TreeRoot(salted.stateTree), TreeRoot(salted.ballotTree),
                                p.sbSalts[p.currentMessageBatchIndex])]

\* the end of processMessages: the batch counters, the new salt and the lock
FinishBatch(p, maci, salt) ==
  LET batchSize == p.batchSizes.messageBatchSize
      counted == [p EXCEPT
                    !.numBatchesProcessed = @ + 1,
                    !.currentMessageBatchIndex = IF @ > 0 THEN @ - batchSize ELSE @]
      salted == [counted EXCEPT !.sbSalts = MapSet(@, counted.currentMessageBatchIndex, salt)]
  IN [poll |-> salted,
      maci |-> IF salted.numBatchesProcessed * batchSize >= Len(salted.messages)
               THEN [maci EXCEPT !.pollBeingProcessed = FALSE]
               ELSE maci,
      newSbSalt |-> salt,
      newSbCommitment |-> Hash3(TreeRoot(salted.stateTree), TreeRoot(salted.ballotTree), salt)]

\* the six witness arrays and the new salt and commitment added to the
\* partial circuit inputs
CircuitInputs(partialInputs, entries, newSbSalt, newSbCommitment) ==
  partialInputs @@
  [currentStateLeaves |-> [k \in DOMAIN entries |-> entries[k].stateLeaf],
   currentStateLeavesPathElements |-> [k \in DOMAIN entries |-> entries[k].stateLeafPathElements],
   currentBallots |-> [k \in DOMAIN entries |-> entries[k].ballot],
   currentBallotsPathElements |-> [k \in DOMAIN entries |-> entries[k].ballotPathElements],
   currentVoteWeights |-> [k \in DOMAIN entries |-> entries[k].voteWeight],
   currentVoteWeightsPathElements |-> [k \in DOMAIN entries |-> entries[k].voteWeightPathElements],
   newSbSalt |-> newSbSalt,
   newSbCommitment |-> newSbCommitment]

\* processMessages from the snapshot on, the lock being held; saltAllowed
\* tells whether the regeneration loop can end with the salt
ProcessBatch(p, locked, salt) ==
  Bind(IF ~p.stateCopied THEN CopyStateFromMaci(p, locked) ELSE p,
    LAMBDA copied :
      Bind(GenProcessMessagesCircuitInputsPartial(copied, locked, copied.currentMessageBatchIndex),
        LAMBDA partial :
          Bind(BatchLoop([poll |-> partial.poll, entries |-> <<>>, slots |-> <<>>], 0),
            LAMBDA looped :
              Bind(FinishBatch(looped.poll, locked, salt),
                LAMBDA done :
                  [ok |-> TRUE, error |-> "none", poll |-> done.poll, maci |-> done.maci,
                   inputs |-> CircuitInputs(partial.inputs, looped.entries,
                                            done.newSbSalt, done.newSbCommitment),
                   slots |-> looped.slots,
                   saltAllowed |-> NewSbSaltAllowed(looped.poll.sbSalts,
                                                    done.poll.currentMessageBatchIndex,
                                                    salt)]))))

\* the lock as processMessages(pollId) leaves it before its lock assertion
TakeLock(p, maci, pollId) ==
  IF p.numBatchesProcessed = 0
  THEN [maci EXCEPT !.pollBeingProcessed = TRUE, !.currentPollBeingProcessed = pollId]
  ELSE maci

\* processMessages(pollId) on poll p, genRandomSalt returning salt
ProcessMessagesOp(p, maci, pollId, salt) ==
  IF ~HasUnprocessedMessages(p) THEN Thrown(p, maci, "No more messages to process")
  ELSE IF p.numBatchesProcessed = 0 /\ p.currentMessageBatchIndex # undefined
  THEN Thrown(p, maci, "The current message batch index should not be defined")
  ELSE
    Bind(TakeLock(p, maci, pollId),
      LAMBDA locked :
        IF locked.pollBeingProcessed /\ locked.currentPollBeingProcessed # pollId
        THEN Thrown(p, locked, "Another poll is currently being processed")
        ELSE Bind(IF p.numBatchesProcessed = 0 THEN StartFirstBatch(p) ELSE p,
                  LAMBDA started : ProcessBatch(started, locked, salt)))

----------------------------------------------------------------------------
(* Vote tallying *)

HashLeftRight(left, right) == [hashLeftRight |-> <<left, right>>]

\* BigInt(0) where a commitment is expected
ZeroCommitment == [hash3 |-> <<>>]

RECURSIVE SumSeq(_)
SumSeq(s) == IF s = <<>> THEN 0 ELSE Head(s) + SumSeq(Tail(s))

AddVotes(a, b) == [j \in DOMAIN a |-> a[j] + b[j]]
SquaredVotes(votes) == [j \in DOMAIN votes |-> votes[j] * votes[j]]

\* the votes, and the squared votes, of a list of ballots summed per option
RECURSIVE SumVotes(_, _)
SumVotes(ballots, numOptions) ==
  IF ballots = <<>> THEN [j \in 1..numOptions |-> 0]
  ELSE AddVotes(SubSeq(Head(ballots).votes, 1, numOptions),
                SumVotes(Tail(ballots), numOptions))

RECURSIVE SumSquaredVotes(_, _)
SumSquaredVotes(ballots, numOptions) ==
  IF ballots = <<>> THEN [j \in 1..numOptions |-> 0]
  ELSE AddVotes(SquaredVotes(SubSeq(Head(ballots).votes, 1, numOptions)),
                SumSquaredVotes(Tail(ballots), numOptions))

\* hasUntalliedBallots comparing with <= instead of <
HasUntalliedBallotsInclusive(p) ==
  p.numBatchesTallied * p.batchSizes.tallyBatchSize <= Len(p.ballots)

HasUntalliedBallots(p) ==
  p.numBatchesTallied * p.batchSizes.tallyBatchSize < Len(p.ballots)

GenResultsCommitment(p, salt) ==
  HashLeftRight(TreeRoot(TreeInsertAll(NewTree(0), p.tallyResult)), salt)

GenSpentVoiceCreditSubtotalCommitment(p, salt, numBallotsToCount) ==
  HashLeftRight(
    SumSeq(SumSquaredVotes(Slice(p.ballots, 0, numBallotsToCount), Len(p.tallyResult))),
    salt)

GenPerVOSpentVoiceCreditsCommitment(p, salt, numBallotsToCount) ==
  HashLeftRight(
    TreeRoot(TreeInsertAll(NewTree(0),
      SumSquaredVotes(Slice(p.ballots, 0, numBallotsToCount), Len(p.tallyResult)))),
    salt)

RECURSIVE PadBallots(_, _, _)
PadBallots(ballots, batchSize, emptyBallot) ==
  IF Len(ballots) < batchSize
  THEN PadBallots(Append(ballots, emptyBallot), batchSize, emptyBallot)
  ELSE ballots

PackTallyVotesSmallVals(batchStartIndex, batchSize, numSignUps) ==
  [batchNum |-> batchStartIndex \div batchSize, numSignUps |-> numSignUps]

Sha256Hash(values) == [sha256 |-> values]

TallyThrown(p, error) ==
  [ok |-> FALSE, error |-> error, poll |-> p, inputs |-> NoInputs]

\* the accumulation loop of tallyVotes stopping after the first ballot
TallyBatchFirstOnly(p, batch) ==
  LET numOptions == p.maxValues.maxVoteOptions
      first == Slice(batch, 0, 1)
  IN [p EXCEPT
        !.tallyResult = AddVotes(@, SumVotes(first, numOptions)),
        !.perVOSpentVoiceCredits = AddVotes(@, SumSquaredVotes(first, numOptions)),
        !.totalSpentVoiceCredits = @ + SumSeq(SumSquaredVotes(first, numOptions))]

\* the accumulation loop of tallyVotes over the ballots of the batch
TallyBatch(p, batch) ==
  LET numOptions == p.maxValues.maxVoteOptions IN
  [p EXCEPT
     !.tallyResult = AddVotes(@, SumVotes(batch, numOptions)),
     !.perVOSpentVoiceCredits = AddVotes(@, SumSquaredVotes(batch, numOptions)),
     !.totalSpentVoiceCredits = @ + SumSeq(SumSquaredVotes(batch, numOptions))]

\* tallyVotes, genRandomSalt returning salts[1], salts[2], salts[3]; hash3
\* of a salt that is not set either throws (hashThrows) or hashes it
TallyVotesOp(p, maci, salts, hashThrows) ==
  IF ~HasUntalliedBallots(p) THEN TallyThrown(p, "No more ballots to tally")
  ELSE
  LET batchSize == p.batchSizes.tallyBatchSize
      batchStartIndex == p.numBatchesTallied * batchSize
      currentResultsRootSalt ==
        IF batchStartIndex = 0 THEN 0
        ELSE MapGet(p.resultRootSalts, batchStartIndex - batchSize)
      currentPerVOSpentVoiceCreditsRootSalt ==
        IF batchStartIndex = 0 THEN 0
        ELSE MapGet(p.preVOSpentVoiceCreditsRootSalts, batchStartIndex - batchSize)
      currentSpentVoiceCreditSubtotalSalt ==
        IF batchStartIndex = 0 THEN 0
        ELSE MapGet(p.spentVoiceCreditSubtotalSalts, batchStartIndex - batchSize)
      currentTallyCommitment ==
        IF batchStartIndex = 0 THEN ZeroCommitment
        ELSE Hash3(GenResultsCommitment(p, currentResultsRootSalt),
                   GenSpentVoiceCreditSubtotalCommitment(
                     p, currentSpentVoiceCreditSubtotalSalt, batchStartIndex),
                   GenPerVOSpentVoiceCreditsCommitment(
                     p, currentPerVOSpentVoiceCreditsRootSalt, batchStartIndex))
      batch == Slice(p.ballots, batchStartIndex, batchStartIndex + batchSize)
      tallied == TallyBatch(p, batch)
      salted == [tallied EXCEPT
                   !.resultRootSalts = MapSet(@, batchStartIndex, salts[1]),
                   !.preVOSpentVoiceCreditsRootSalts = MapSet(@, batchStartIndex, salts[2]),
                   !.spentVoiceCreditSubtotalSalts = MapSet(@, batchStartIndex, salts[3])]
      newTallyCommitment ==
        Hash3(GenResultsCommitment(salted, salts[1]),
              GenSpentVoiceCreditSubtotalCommitment(salted, salts[3], batchStartIndex + batchSize),
              GenPerVOSpentVoiceCreditsCommitment(salted, salts[2], batchStartIndex + batchSize))
      sbSalt == MapGet(p.sbSalts, p.currentMessageBatchIndex)
      sbCommitment == Hash3(TreeRoot(p.stateTree), TreeRoot(p.ballotTree), sbSalt)
      packedVals == PackTallyVotesSmallVals(batchStartIndex, batchSize, maci.numSignUps)
      ballots == PadBallots(batch, batchSize, GenBlankBallot(p.maxValues.maxVoteOptions))
  IN IF ~p.stateTree.defined
     THEN TallyThrown(salted, "TypeError")
     ELSE IF sbSalt = undefined /\ hashThrows
     THEN TallyThrown(salted, "TypeError")
     ELSE
       [ok |-> TRUE, error |-> "none",
        poll |-> [salted EXCEPT !.numBatchesTallied = @ + 1],
        inputs |->
          [stateRoot |-> TreeRoot(p.stateTree),
           ballotRoot |-> TreeRoot(p.ballotTree),
           sbSalt |-> sbSalt,
           sbCommitment |-> sbCommitment,
           currentTallyCommitment |-> currentTallyCommitment,
           newTallyCommitment |-> newTallyCommitment,
           packedVals |-> packedVals,
           inputHash |-> Sha256Hash(<<packedVals, sbCommitment, currentTallyCommitment,
                                      newTallyCommitment>>),
           ballots |-> ballots,
           ballotPathElements |->
             [from |-> batchStartIndex, to |-> batchStartIndex + batchSize,
              root |-> TreeRoot(p.ballotTree)],
           votes |-> [k \in DOMAIN ballots |-> ballots[k].votes],
           currentResults |-> p.tallyResult,
           currentResultsRootSalt |-> currentResultsRootSalt,
           currentSpentVoiceCreditSubtotal |-> p.totalSpentVoiceCredits,
           currentSpentVoiceCreditSubtotalSalt |-> currentSpentVoiceCreditSubtotalSalt,
           currentPerVOSpentVoiceCredits |-> p.perVOSpentVoiceCredits,
           currentPerVOSpentVoiceCreditsRootSalt |-> currentPerVOSpentVoiceCreditsRootSalt,
           newResultsRootSalt |-> salts[1],
           newPerVOSpentVoiceCreditsRootSalt |-> salts[2],
           newSpentVoiceCreditSubtotalSalt |-> salts[3]]]

----------------------------------------------------------------------------
(* Subsidy calculation *)

HasUnfinishedSubsidyCalculation(p) ==
  /\ p.rbi * p.batchSizes.subsidyBatchSize < Len(p.ballots)
  /\ p.cbi * p.batchSizes.subsidyBatchSize < Len(p.ballots)

\* the key "rbi-cbi" of subsidySalts
SubsidyIndexToString(rbi, cbi) == <<rbi, cbi>>

\* Math.ceil(a / b)
Ceil(a, b) == (a + b - 1) \div b

\* increaseSubsidyIndex starting the next row at column 0
IncreaseSubsidyIndexFromZero(p) ==
  LET batchSize == p.batchSizes.subsidyBatchSize IN
  IF p.cbi * batchSize + batchSize < Len(p.ballots)
  THEN [p EXCEPT !.cbi = @ + 1]
  ELSE [p EXCEPT !.rbi = @ + 1, !.cbi = 0]

IncreaseSubsidyIndex(p) ==
  LET batchSize == p.batchSizes.subsidyBatchSize IN
  IF p.cbi * batchSize + batchSize < Len(p.ballots)
  THEN [p EXCEPT !.cbi = @ + 1]
  ELSE [p EXCEPT !.rbi = @ + 1, !.cbi = p.rbi + 1]

\* previousSubsidyIndexToString stepping back along the diagonal at a row change
PreviousSubsidyIndexToStringDiagonal(p) ==
  IF p.cbi = 0 /\ p.rbi = 0 THEN SubsidyIndexToString(0, 0)
  ELSE IF p.cbi > p.rbi THEN SubsidyIndexToString(p.rbi, p.cbi - 1)
  ELSE SubsidyIndexToString(p.rbi - 1, p.cbi - 1)

PreviousSubsidyIndexToString(p) ==
  LET numBatches == Ceil(Len(p.ballots), p.batchSizes.subsidyBatchSize) IN
  IF p.cbi = 0 /\ p.rbi = 0 THEN SubsidyIndexToString(0, 0)
  ELSE IF p.cbi > p.rbi THEN SubsidyIndexToString(p.rbi, p.cbi - 1)
  ELSE SubsidyIndexToString(p.rbi - 1, numBatches - 1)

RECURSIVE Power(_, _)
Power(base, exponent) ==
  IF exponent = 0 THEN 1 ELSE base * Power(base, exponent - 1)

CoefficientCalculation(rowBallot, colBallot) ==
  LET sum == SumSeq([k \in 1..maxVoteOptions |-> rowBallot.votes[k] * colBallot.votes[k]])
  IN (MM * Power(10, WW)) \div (MM + sum)

\* this.ballots[i], or the empty ballot past the end
BallotOrEmpty(p, i) ==
  IF i < Len(p.ballots) THEN p.ballots[i + 1] ELSE GenBlankBallot(p.maxValues.maxVoteOptions)

\* what the pair (i, j) of the batch adds to the subsidy
PairSubsidy(p, rowStartIndex, colStartIndex, i, j) ==
  LET rowBallot == BallotOrEmpty(p, rowStartIndex + i)
      colBallot == BallotOrEmpty(p, colStartIndex + j)
      kij == CoefficientCalculation(rowBallot, colBallot)
  IN [k \in 1..p.maxValues.maxVoteOptions |->
        IF rowStartIndex # colStartIndex \/ i < j
        THEN 2 * kij * rowBallot.votes[k] * colBallot.votes[k]
        ELSE 0]

\* the double loop of subsidyCalculation from its n-th pair on
RECURSIVE SubsidyLoop(_, _, _, _)
SubsidyLoop(p, rowStartIndex, colStartIndex, n) ==
  LET batchSize == p.batchSizes.subsidyBatchSize IN
  IF n >= batchSize * batchSize THEN p
  ELSE SubsidyLoop(
         [p EXCEPT !.subsidy =
            AddVotes(@, PairSubsidy(p, rowStartIndex, colStartIndex,
                                    n \div batchSize, n % batchSize))],
         rowStartIndex, colStartIndex, n + 1)

\* subsidyCalculation: the poll with its subsidy updated, and the row and
\* column ballots
SubsidyCalculation(p, rowStartIndex, colStartIndex) ==
  LET batchSize == p.batchSizes.subsidyBatchSize IN
  [poll |-> SubsidyLoop(p, rowStartIndex, colStartIndex, 0),
   ballots1 |-> [i \in 1..batchSize |-> BallotOrEmpty(p, rowStartIndex + i - 1)],
   ballots2 |-> [i \in 1..batchSize |-> BallotOrEmpty(p, colStartIndex + i - 1)]]

GenTreeCommitment(leaves, salt) ==
  HashLeftRight(TreeRoot(TreeInsertAll(NewTree(0), leaves)), salt)

PackSubsidySmallVals(row, col, numSignUps) ==
  [row |-> row, col |-> col, numSignUps |-> numSignUps]

\* subsidyPerBatch, genRandomSalt returning salt; hash3 of a salt that is
\* not set either throws (hashThrows) or hashes it
SubsidyPerBatchOp(p, maci, salt, hashThrows) ==
  IF ~HasUnfinishedSubsidyCalculation(p)
  THEN TallyThrown(p, "No more subsidy batches to calculate")
  ELSE IF ~p.stateTree.defined THEN TallyThrown(p, "TypeError")
  ELSE
  LET batchSize == p.batchSizes.subsidyBatchSize
      sbSalt == MapGet(p.sbSalts, p.currentMessageBatchIndex)
      sbCommitment == Hash3(TreeRoot(p.stateTree), TreeRoot(p.ballotTree), sbSalt)
      first == p.rbi = 0 /\ p.cbi = 0
      currentSubsidySalt ==
        IF first THEN 0 ELSE MapGet(p.subsidySalts, PreviousSubsidyIndexToString(p))
      currentSubsidyCommitment ==
        IF first THEN ZeroCommitment ELSE GenTreeCommitment(p.subsidy, currentSubsidySalt)
      rowStartIndex == p.rbi * batchSize
      colStartIndex == p.cbi * batchSize
      calc == SubsidyCalculation(p, rowStartIndex, colStartIndex)
      salted == [calc.poll EXCEPT
                   !.subsidySalts = MapSet(@, SubsidyIndexToString(p.rbi, p.cbi), salt)]
      newSubsidyCommitment == GenTreeCommitment(salted.subsidy, salt)
      packedVals == PackSubsidySmallVals(p.rbi, p.cbi, maci.numSignUps)
  IN IF sbSalt = undefined /\ hashThrows THEN TallyThrown(p, "TypeError")
     ELSE IF currentSubsidySalt = undefined THEN TallyThrown(p, "TypeError")
     ELSE
       [ok |-> TRUE, error |-> "none",
        poll |-> IncreaseSubsidyIndex(salted),
        inputs |->
          [stateRoot |-> TreeRoot(p.stateTree),
           ballotRoot |-> TreeRoot(p.ballotTree),
           sbSalt |-> sbSalt,
           currentSubsidySalt |-> currentSubsidySalt,
           newSubsidySalt |-> salt,
           sbCommitment |-> sbCommitment,
           currentSubsidyCommitment |-> currentSubsidyCommitment,
           newSubsidyCommitment |-> newSubsidyCommitment,
           currentSubsidy |-> p.subsidy,
           packedVals |-> packedVals,
           inputHash |-> Sha256Hash(<<packedVals, sbCommitment, currentSubsidyCommitment,
                                      newSubsidyCommitment>>),
           ballots1 |-> calc.ballots1,
           ballots2 |-> calc.ballots2,
           votes1 |-> [k \in DOMAIN calc.ballots1 |-> calc.ballots1[k].votes],
           votes2 |-> [k \in DOMAIN calc.ballots2 |-> calc.ballots2[k].votes],
           ballotPathElements1 |->
             [from |-> rowStartIndex, to |-> rowStartIndex + batchSize,
              root |-> TreeRoot(p.ballotTree)],
           ballotPathElements2 |->
             [from |-> colStartIndex, to |-> colStartIndex + batchSize,
              root |-> TreeRoot(p.ballotTree)]]]

----------------------------------------------------------------------------
(* Copy and comparison *)

\* copy() handing the ballots array of p to the copy instead of a new array
CopyOpSharesBallots(p) ==
  [poll |-> [NewPoll(p.coordinatorKeypair, p.batchSizes, p.pollId) EXCEPT
               !.stateLeaves = p.stateLeaves,
               !.messages = p.messages,
               !.commands = p.commands,
               !.ballots = p.ballots,
               !.encPubKeys = p.encPubKeys,
               !.ballotTree = p.ballotTree,
               !.currentMessageBatchIndex = p.currentMessageBatchIndex,
               !.messageTree = p.messageTree,
               !.tallyResult = p.tallyResult,
               !.perVOSpentVoiceCredits = p.perVOSpentVoiceCredits,
               !.numBatchesProcessed = p.numBatchesProcessed,
               !.numBatchesTallied = p.numBatchesTallied,
               !.totalSpentVoiceCredits = p.totalSpentVoiceCredits,
               !.sbSalts = p.sbSalts,
               !.resultRootSalts = p.resultRootSalts,
               !.preVOSpentVoiceCreditsRootSalts = p.preVOSpentVoiceCreditsRootSalts,
               !.spentVoiceCreditSubtotalSalts = p.spentVoiceCreditSubtotalSalts,
               !.subsidy = p.subsidy,
               !.rbi = p.rbi,
               !.cbi = p.cbi,
               !.subsidySalts = p.subsidySalts],
   shared |-> {"ballots"}]

\* copy(): a new Poll whose fields are then assigned from p. stateTree and
\* stateCopied are not assigned and keep the values the constructor gave
\* them. Every array is mapped element by element with copy(), every tree is
\* copied and every salt map is filled key by key, so the set of fields
\* whose storage the copy shares with p is empty.
CopyOp(p) ==
  [poll |-> [NewPoll(p.coordinatorKeypair, p.batchSizes, p.pollId) EXCEPT
               !.stateLeaves = p.stateLeaves,
               !.messages = p.messages,
               !.commands = p.commands,
               !.ballots = p.ballots,
               !.encPubKeys = p.encPubKeys,
               !.ballotTree = p.ballotTree,
               !.currentMessageBatchIndex = p.currentMessageBatchIndex,
               !.messageTree = p.messageTree,
               !.tallyResult = p.tallyResult,
               !.perVOSpentVoiceCredits = p.perVOSpentVoiceCredits,
               !.numBatchesProcessed = p.numBatchesProcessed,
               !.numBatchesTallied = p.numBatchesTallied,
               !.totalSpentVoiceCredits = p.totalSpentVoiceCredits,
               !.sbSalts = p.sbSalts,
               !.resultRootSalts = p.resultRootSalts,
               !.preVOSpentVoiceCreditsRootSalts = p.preVOSpentVoiceCreditsRootSalts,
               !.spentVoiceCreditSubtotalSalts = p.spentVoiceCreditSubtotalSalts,
               !.subsidy = p.subsidy,
               !.rbi = p.rbi,
               !.cbi = p.cbi,
               !.subsidySalts = p.subsidySalts],
   shared |-> {}]

\* equals(): the coordinator key, the tally and message batch sizes, the
\* maximum values, and the messages and encPubKeys one by one
Equals(p, q) ==
  /\ p.coordinatorKeypair = q.coordinatorKeypair
  /\ p.batchSizes.tallyBatchSize = q.batchSizes.tallyBatchSize
  /\ p.batchSizes.messageBatchSize = q.batchSizes.messageBatchSize
  /\ p.maxValues = q.maxValues
  /\ Len(p.messages) = Len(q.messages)
  /\ Len(p.encPubKeys) = Len(q.encPubKeys)
  /\ \A i \in DOMAIN p.messages : p.messages[i] = q.messages[i]
  /\ \A i \in DOMAIN p.encPubKeys : p.encPubKeys[i] = q.encPubKeys[i]

\* poll p after a call turned a poll that shares the fields in shared with
\* it into q: what is written through a shared field is seen through p
SeenThrough(p, q, shared) ==
  [field \in DOMAIN p |-> IF field \in shared THEN q[field] ELSE p[field]]

----------------------------------------------------------------------------
(* Serialization *)

\* a number written as a string, and read back
ToStr(n) == [str |-> n]
FromStr(s) == s.str

\* the JSON form of a message, ballot, state leaf or command, and the
\* object read back from it
ObjToJSON(x) == [json |-> x]
ObjFromJSON(j) == j.json

\* the JSON form of a command carries its cmdType as a string
CommandToJSON(command) == [cmdType |-> ToStr(command.cmdType), json |-> command]

\* the switch of fromJSON on cmdType
CommandFromJSON(j) ==
  IF j.cmdType = ToStr(1) THEN ObjFromJSON(j)
  ELSE IF j.cmdType = ToStr(2) THEN ObjFromJSON(j)
  ELSE [cmdType |-> j.cmdType]

ToJSON(p) ==
  [batchSizes |-> p.batchSizes,
   maxValues |-> p.maxValues,
   messages |-> [i \in DOMAIN p.messages |-> ObjToJSON(p.messages[i])],
   commands |-> [i \in DOMAIN p.commands |-> CommandToJSON(p.commands[i])],
   ballots |-> [i \in DOMAIN p.ballots |-> ObjToJSON(p.ballots[i])],
   encPubKeys |-> [i \in DOMAIN p.encPubKeys |-> ToStr(p.encPubKeys[i])],
   currentMessageBatchIndex |-> p.currentMessageBatchIndex,
   stateLeaves |-> [i \in DOMAIN p.stateLeaves |-> ObjToJSON(p.stateLeaves[i])],
   results |-> [i \in DOMAIN p.tallyResult |-> ToStr(p.tallyResult[i])],
   numBatchesProcessed |-> p.numBatchesProcessed]

\* fromJSON(json, maciState): a new Poll with the key of a new Keypair(),
\* numPolls being maciState.polls.length; the fields read from the JSON; the
\* message tree filled from the messages; then the snapshot
FromJSON(json, maci, numPolls, randomKey) ==
  LET messages == [i \in DOMAIN json.messages |-> ObjFromJSON(json.messages[i])]
      encPubKeys == [i \in DOMAIN json.encPubKeys |-> FromStr(json.encPubKeys[i])]
      poll == [NewPoll(randomKey, json.batchSizes, numPolls) EXCEPT
                 !.maxValues = json.maxValues,
                 !.ballots = [i \in DOMAIN json.ballots |-> ObjFromJSON(json.ballots[i])],
                 !.encPubKeys = encPubKeys,
                 !.messages = messages,
                 !.commands = [i \in DOMAIN json.commands |->
                                CommandFromJSON(json.commands[i])],
                 !.tallyResult = [i \in DOMAIN json.results |-> FromStr(json.results[i])],
                 !.currentMessageBatchIndex = json.currentMessageBatchIndex,
                 !.numBatchesProcessed = json.numBatchesProcessed,
                 !.messageTree = TreeInsertAll(@, [i \in DOMAIN messages |->
                                                    HashMessage(messages[i], encPubKeys[i])])]
  IN CopyStateFromMaci(poll, maci)

----------------------------------------------------------------------------
(* The calls made on the polls *)

\* the calls on a poll that takes at most maxMessages messages
NoHistory(maxMessages) ==
  [order |-> <<>>, lateIngests |-> 0, maxMessages |-> maxMessages, emitted |-> <<>>,
   tallies |-> 0, counted |-> <<>>, visited |-> <<>>, snapshot |-> <<>>,
   lastTally |-> NoInputs, lastSubsidy |-> NoInputs, accepted |-> <<>>,
   credited |-> <<>>]

Returned(op, id) ==
  [op |-> op, pollId |-> id, ok |-> TRUE, error |-> "none",
   inputs |-> NoInputs, slots |-> <<>>]

\* the message indices a call handled, in the order it handled them
RECURSIVE HandledIndices(_)
HandledIndices(slots) ==
  IF slots = <<>> THEN <<>>
  ELSE (IF Head(slots).kind = "blank" THEN <<>> ELSE <<Head(slots).idx>>)
       \o HandledIndices(Tail(slots))

\* the commands of one kind (vote or topup) a call applied, each with the
\* index of its message, in the order it handled them
RECURSIVE AppliedIn(_, _)
AppliedIn(slots, kind) ==
  IF slots = <<>> THEN <<>>
  ELSE (IF Head(slots).kind = kind
        THEN <<[idx |-> Head(slots).idx, command |-> Head(slots).command]>>
        ELSE <<>>)
       \o AppliedIn(Tail(slots), kind)

Ingested(id) ==
  [hist EXCEPT ![id].lateIngests = IF polls[id].numBatchesProcessed > 0 THEN @ + 1 ELSE @]

\* the polls take messages while the bounds of the model allow
CanIngest(id) ==
  /\ Len(polls[id].messages) < hist[id].maxMessages
  /\ polls[id].numBatchesProcessed > 0 => hist[id].lateIngests < MaxLateIngests

Init ==
  /\ maciState = NewMaciState(NumSignUps)
  /\ \E batchSize \in MessageBatchSizes :
       polls = [id \in {0} |->
                  NewPoll(CoordKey, BatchSizes(batchSize, MaxBatchSize, MaxBatchSize), id)]
  /\ out = Returned("constructor", 0)
  /\ hist = [id \in {0} |-> NoHistory(MaxMessages)]

PublishMessage ==
  \E id \in DOMAIN polls, m \in VotePool, randomKey \in RandomKeys :
    /\ CanIngest(id)
    /\ polls' = [polls EXCEPT ![id] = PublishMessageOp(@, m[1], m[2], randomKey)]
    /\ out' = Returned("publishMessage", id)
    /\ hist' = Ingested(id)
    /\ UNCHANGED maciState

TopupMessage ==
  \E id \in DOMAIN polls, m \in TopupPool :
    /\ CanIngest(id)
    /\ polls' = [polls EXCEPT ![id] = TopupMessageOp(@, m)]
    /\ out' = Returned("topupMessage", id)
    /\ hist' = Ingested(id)
    /\ UNCHANGED maciState

ProcessMessages ==
  \E id \in DOMAIN polls, salt \in Salts :
    \E r \in {ProcessMessagesOp(polls[id], maciState, id, salt)} :
    /\ r.ok
    /\ r.saltAllowed
    /\ polls' = [polls EXCEPT ![id] = r.poll]
    /\ maciState' = r.maci
    /\ out' = [op |-> "processMessages", pollId |-> id, ok |-> TRUE, error |-> "none",
               inputs |-> r.inputs, slots |-> r.slots]
    /\ hist' = [hist EXCEPT
                  ![id].order = @ \o HandledIndices(r.slots),
                  ![id].emitted = Append(@, [salt |-> r.inputs.newSbSalt,
                                             commitment |-> r.inputs.newSbCommitment]),
                  ![id].snapshot = IF polls[id].numBatchesProcessed = 0
                                   THEN maciState.stateLeaves ELSE @,
                  ![id].accepted = @ \o AppliedIn(r.slots, "vote"),
                  ![id].credited = @ \o AppliedIn(r.slots, "topup")]

ProcessMessagesThrows ==
  \E id \in DOMAIN polls :
    \E r \in {ProcessMessagesOp(polls[id], maciState, id, 0)} :
    /\ ~r.ok
    /\ maciState' = r.maci
    /\ out' = [op |-> "processMessages", pollId |-> id, ok |-> FALSE, error |-> r.error,
               inputs |-> NoInputs, slots |-> <<>>]
    /\ UNCHANGED <<polls, hist>>

Next ==
  \/ PublishMessage
  \/ TopupMessage
  \/ ProcessMessages
  \/ ProcessMessagesThrows

Spec == Init /\ [][Next]_vars

----------------------------------------------------------------------------
(* The calls made on a poll whose processMessage is also called on its own *)

\* a key no voter signed up with
StrangerKey == 30

\* the vote messages processMessage is called with: every state index from 0
\* to one past the last leaf, a valid and an invalid vote option, an
\* affordable and an unaffordable weight, the nonces 0 and 1, signed by the
\* voter or by a stranger; and one message sealed for another key
CraftedVotes ==
  { <<NewVoteMessage(stateIndex, UserKey(1), voteOptionIndex, newVoteWeight, nonce,
                     signer, SealedFor), EphKey>> :
      stateIndex \in 0..(NumSignUps + 1),
      voteOptionIndex \in {0, maxVoteOptions},
      newVoteWeight \in {1, InitialCredits},
      nonce \in {0, 1},
      signer \in {UserKey(1), StrangerKey} }
  \cup { <<NewVoteMessage(1, UserKey(1), 0, 1, 1, UserKey(1), SealedFor), OtherEphKey>> }

InitCall ==
  /\ maciState = NewMaciState(NumSignUps)
  /\ \E batchSize \in MessageBatchSizes :
       polls = [id \in {0} |->
                  NewPoll(CoordKey, BatchSizes(batchSize, MaxBatchSize, MaxBatchSize), id)]
  /\ out = Returned("constructor", 0)
  /\ hist = [id \in {0} |-> NoHistory(FewMessages)]

\* processMessage(message, encPubKey) called on a poll: it changes nothing
\* and returns its result or throws a ProcessMessageError
CallProcessMessage ==
  \E id \in DOMAIN polls, m \in CraftedVotes :
    \E r \in {ProcessMessage(polls[id], m[1], m[2])} :
    /\ out' = [op |-> "processMessage", pollId |-> id, ok |-> r.ok, error |-> r.error,
               inputs |-> NoInputs, slots |-> <<>>,
               message |-> m[1], encPubKey |-> m[2]]
    /\ UNCHANGED <<maciState, polls, hist>>

NextCall ==
  \/ PublishMessage
  \/ TopupMessage
  \/ ProcessMessages
  \/ ProcessMessagesThrows
  \/ CallProcessMessage

SpecCall == InitCall /\ [][NextCall]_vars

----------------------------------------------------------------------------
(* The calls made on several polls attached to one MaciState *)

PollIds == 0..(NumPolls - 1)

\* the vote every voter publishes to these polls
LockVote == <<NewVoteMessage(1, UserKey(1), 0, 1, 1, UserKey(1), SealedFor), EphKey>>

InitLock ==
  /\ maciState = NewMaciState(NumSignUps)
  /\ \E batchSize \in MessageBatchSizes :
       polls = [id \in PollIds |->
                  NewPoll(CoordKey, BatchSizes(batchSize, MaxBatchSize, MaxBatchSize), id)]
  /\ out = Returned("constructor", 0)
  /\ hist = [id \in PollIds |-> NoHistory(MaxLockMessages)]

PublishVote ==
  \E id \in DOMAIN polls, randomKey \in RandomKeys :
    /\ CanIngest(id)
    /\ polls' = [polls EXCEPT ![id] = PublishMessageOp(@, LockVote[1], LockVote[2], randomKey)]
    /\ out' = Returned("publishMessage", id)
    /\ hist' = Ingested(id)
    /\ UNCHANGED maciState

NextLock ==
  \/ PublishVote
  \/ ProcessMessages
  \/ ProcessMessagesThrows

SpecLock == InitLock /\ [][NextLock]_vars

----------------------------------------------------------------------------
(* The calls made on a poll whose topups name any leaf *)

\* the credits one topup adds
TopupAmount == 5

\* topup messages for every state index from 0 to one past the last leaf
CraftedTopups ==
  { NewTopupMessage(stateIndex, TopupAmount) : stateIndex \in 0..(NumSignUps + 1) }

InitTopup ==
  /\ maciState = NewMaciState(NumSignUps)
  /\ \E batchSize \in MessageBatchSizes :
       polls = [id \in {0} |->
                  NewPoll(CoordKey, BatchSizes(batchSize, MaxBatchSize, MaxBatchSize), id)]
  /\ out = Returned("constructor", 0)
  /\ hist = [id \in {0} |-> NoHistory(MaxTopupMessages)]

TopupAnyLeaf ==
  \E id \in DOMAIN polls, m \in CraftedTopups :
    /\ CanIngest(id)
    /\ polls' = [polls EXCEPT ![id] = TopupMessageOp(@, m)]
    /\ out' = Returned("topupMessage", id)
    /\ hist' = Ingested(id)
    /\ UNCHANGED maciState

NextTopup ==
  \/ PublishMessage
  \/ TopupAnyLeaf
  \/ ProcessMessages
  \/ ProcessMessagesThrows

SpecTopup == InitTopup /\ [][NextTopup]_vars

----------------------------------------------------------------------------
(* The calls made on a poll whose ballots are tallied *)

TallySalts == Salts \X Salts \X Salts

InitTally ==
  /\ maciState = NewMaciState(NumSignUps)
  /\ \E batchSize \in MessageBatchSizes :
       polls = [id \in {0} |->
                  NewPoll(CoordKey, BatchSizes(batchSize, MaxBatchSize, MaxBatchSize), id)]
  /\ out = Returned("constructor", 0)
  /\ hist = [id \in {0} |-> NoHistory(FewMessages)]

\* the ballots a tallyVotes call on p reads, each with its index
BatchCounted(p) ==
  LET batchSize == p.batchSizes.tallyBatchSize
      batchStartIndex == p.numBatchesTallied * batchSize
      batch == Slice(p.ballots, batchStartIndex, batchStartIndex + batchSize)
  IN [k \in DOMAIN batch |-> [index |-> batchStartIndex + k - 1, ballot |-> batch[k]]]

\* tallyVotes returns: hash3 hashes a salt that is not set
TallyVotes ==
  \E id \in DOMAIN polls, salts \in TallySalts :
    \E r \in {TallyVotesOp(polls[id], maciState, salts, FALSE)} :
    /\ r.ok
    /\ polls' = [polls EXCEPT ![id] = r.poll]
    /\ out' = [op |-> "tallyVotes", pollId |-> id, ok |-> TRUE, error |-> "none",
               inputs |-> r.inputs, slots |-> <<>>]
    /\ hist' = [hist EXCEPT
                  ![id].tallies = @ + 1,
                  ![id].counted = @ \o BatchCounted(polls[id]),
                  ![id].lastTally = r.inputs]
    /\ UNCHANGED maciState

\* tallyVotes throws: an assertion fails, a tree is not set, or hash3 throws
\* on a salt that is not set
TallyVotesThrows ==
  \E id \in DOMAIN polls, salts \in TallySalts :
    \E r \in {TallyVotesOp(polls[id], maciState, salts, TRUE)} :
    /\ ~r.ok
    /\ polls' = [polls EXCEPT ![id] = r.poll]
    /\ out' = [op |-> "tallyVotes", pollId |-> id, ok |-> FALSE, error |-> r.error,
               inputs |-> NoInputs, slots |-> <<>>]
    /\ UNCHANGED <<maciState, hist>>

SubsidyPerBatch ==
  \E id \in DOMAIN polls, salt \in Salts :
    \E r \in {SubsidyPerBatchOp(polls[id], maciState, salt, FALSE)} :
    /\ r.ok
    /\ polls' = [polls EXCEPT ![id] = r.poll]
    /\ out' = [op |-> "subsidyPerBatch", pollId |-> id, ok |-> TRUE, error |-> "none",
               inputs |-> r.inputs, slots |-> <<>>]
    /\ hist' = [hist EXCEPT
                  ![id].visited = Append(@, [rbi |-> polls[id].rbi, cbi |-> polls[id].cbi,
                                             ballots |-> polls[id].ballots]),
                  ![id].lastSubsidy = r.inputs]
    /\ UNCHANGED maciState

\* subsidyPerBatch throws, which it does before it draws its salt
SubsidyPerBatchThrows ==
  \E id \in DOMAIN polls :
    \E r \in {SubsidyPerBatchOp(polls[id], maciState, 0, TRUE)} :
    /\ ~r.ok
    /\ polls' = [polls EXCEPT ![id] = r.poll]
    /\ out' = [op |-> "subsidyPerBatch", pollId |-> id, ok |-> FALSE, error |-> r.error,
               inputs |-> NoInputs, slots |-> <<>>]
    /\ UNCHANGED <<maciState, hist>>

NextTally ==
  \/ PublishMessage
  \/ TopupMessage
  \/ ProcessMessages
  \/ ProcessMessagesThrows
  \/ TallyVotes
  \/ TallyVotesThrows
  \/ SubsidyPerBatch
  \/ SubsidyPerBatchThrows

SpecTally == InitTally /\ [][NextTally]_vars

----------------------------------------------------------------------------
(* The calls made on a poll whose ballots are tallied in several batches *)

\* the two largest tally batch sizes: one that takes every ballot at once
\* and one that needs a second batch
TallyBatchSizes == {MaxBatchSize - 1, MaxBatchSize}

\* one vote of weight 2 by every voter, voter i for option i mod maxVoteOptions
CountedVotes ==
  { <<NewVoteMessage(i, UserKey(i), i % maxVoteOptions, 2, 1, UserKey(i), SealedFor), EphKey>> :
      i \in 1..NumSignUps }

InitCount ==
  /\ maciState = NewMaciState(NumSignUps)
  /\ \E batchSize \in TallyBatchSizes :
       polls = [id \in {0} |-> NewPoll(CoordKey, BatchSizes(1, batchSize, batchSize), id)]
  /\ out = Returned("constructor", 0)
  /\ hist = [id \in {0} |-> NoHistory(MaxCountMessages)]

PublishCountedVote ==
  \E id \in DOMAIN polls, m \in CountedVotes, randomKey \in RandomKeys :
    /\ CanIngest(id)
    /\ polls' = [polls EXCEPT ![id] = PublishMessageOp(@, m[1], m[2], randomKey)]
    /\ out' = Returned("publishMessage", id)
    /\ hist' = Ingested(id)
    /\ UNCHANGED maciState

NextCount ==
  \/ PublishCountedVote
  \/ ProcessMessages
  \/ ProcessMessagesThrows
  \/ TallyVotes
  \/ TallyVotesThrows

SpecCount == InitCount /\ [][NextCount]_vars

----------------------------------------------------------------------------
(* The calls made on a poll whose subsidy is calculated in several batches *)

\* one more voter than NumSignUps signs up, so that two ballots carry votes
SubsidySignUps == NumSignUps + 1

\* one vote by every voter, all for option 0, of weight 2 or 1 in turn
SubsidyVotes ==
  { <<NewVoteMessage(i, UserKey(i), 0, 1 + (i % 2), 1, UserKey(i), SealedFor), EphKey>> :
      i \in 1..SubsidySignUps }

InitSubsidy ==
  /\ maciState = NewMaciState(SubsidySignUps)
  /\ \E batchSize \in TallyBatchSizes :
       polls = [id \in {0} |-> NewPoll(CoordKey, BatchSizes(1, batchSize, batchSize), id)]
  /\ out = Returned("constructor", 0)
  /\ hist = [id \in {0} |-> NoHistory(MaxCountMessages)]

PublishSubsidyVote ==
  \E id \in DOMAIN polls, m \in SubsidyVotes, randomKey \in RandomKeys :
    /\ CanIngest(id)
    /\ polls' = [polls EXCEPT ![id] = PublishMessageOp(@, m[1], m[2], randomKey)]
    /\ out' = Returned("publishMessage", id)
    /\ hist' = Ingested(id)
    /\ UNCHANGED maciState

NextSubsidy ==
  \/ PublishSubsidyVote
  \/ ProcessMessages
  \/ ProcessMessagesThrows
  \/ SubsidyPerBatch
  \/ SubsidyPerBatchThrows

SpecSubsidy == InitSubsidy /\ [][NextSubsidy]_vars

----------------------------------------------------------------------------
(* The calls made on a poll of several voters that is tallied in batches *)

NextRecount ==
  \/ PublishSubsidyVote
  \/ ProcessMessages
  \/ ProcessMessagesThrows
  \/ TallyVotes
  \/ TallyVotesThrows

SpecRecount == InitSubsidy /\ [][NextRecount]_vars

----------------------------------------------------------------------------
(* The calls made on a poll that is processed in several batches and, once
   every batch is processed, tallied and its subsidy calculated *)

\* the processMessages calls on poll id have handled every batch
ProcessingCompleted(id) ==
  /\ polls[id].numBatchesProcessed > 0
  /\ ~HasUnprocessedMessages(polls[id])

ProcessedAll == \A id \in DOMAIN polls : ProcessingCompleted(id)

\* the salt genRandomSalt returns to the tally and to the subsidy of this poll
DrawnSalt == 1

\* tallyVotes on a poll whose messages are all processed
TallyProcessed ==
  /\ ProcessedAll
  /\ TallyVotes
  /\ out'.inputs.newResultsRootSalt = DrawnSalt
  /\ out'.inputs.newPerVOSpentVoiceCreditsRootSalt = DrawnSalt
  /\ out'.inputs.newSpentVoiceCreditSubtotalSalt = DrawnSalt

TallyProcessedThrows == ProcessedAll /\ TallyVotesThrows

\* subsidyPerBatch on a poll whose messages are all processed
SubsidyProcessed ==
  /\ ProcessedAll
  /\ SubsidyPerBatch
  /\ out'.inputs.newSubsidySalt = DrawnSalt

SubsidyProcessedThrows == ProcessedAll /\ SubsidyPerBatchThrows

NextCommit ==
  \/ PublishCountedVote
  \/ ProcessMessages
  \/ ProcessMessagesThrows
  \/ TallyProcessed
  \/ TallyProcessedThrows
  \/ SubsidyProcessed
  \/ SubsidyProcessedThrows

SpecCommit == InitCount /\ [][NextCommit]_vars

----------------------------------------------------------------------------
(* The calls made on a poll whose voter sends votes of successive nonces *)

\* the votes of voter 1: weight 1 for option n - 1 with nonce n
NonceVotes ==
  { <<NewVoteMessage(1, UserKey(1), nonce - 1, 1, nonce, UserKey(1), SealedFor), EphKey>> :
      nonce \in 1..maxVoteOptions }

PublishNonceVote ==
  \E id \in DOMAIN polls, m \in NonceVotes, randomKey \in RandomKeys :
    /\ CanIngest(id)
    /\ polls' = [polls EXCEPT ![id] = PublishMessageOp(@, m[1], m[2], randomKey)]
    /\ out' = Returned("publishMessage", id)
    /\ hist' = Ingested(id)
    /\ UNCHANGED maciState

NextNonce ==
  \/ PublishNonceVote
  \/ ProcessMessages
  \/ ProcessMessagesThrows

SpecNonce == Init /\ [][NextNonce]_vars

----------------------------------------------------------------------------
(* The calls made on a poll with messages and keys of any type and range *)

\* a vote and a topup, each also with the other message type, with a type
\* that is neither, and with its first, its second and its last data word
\* out of the field
CraftedMessages ==
  LET good == {LockVote[1], NewTopupMessage(1, TopupAmount)} IN
  good
  \cup { [m EXCEPT !.msgType = msgType] : m \in good, msgType \in {1, 2, 3} }
  \cup { [m EXCEPT !.data[i] = SNARK_FIELD_SIZE] : m \in good, i \in {1, 2, 9} }

\* a key in the field and one with its coordinates out of it
CraftedKeys == {EphKey, SNARK_FIELD_SIZE}

\* publishMessage called with any of the messages and keys
PublishCrafted ==
  \E id \in DOMAIN polls, m \in CraftedMessages, encPubKey \in CraftedKeys,
     randomKey \in RandomKeys :
    \E r \in {PublishMessageCall(polls[id], m, encPubKey, randomKey)} :
      /\ r.ok => CanIngest(id)
      /\ polls' = [polls EXCEPT ![id] = r.poll]
      /\ out' = [op |-> "publishMessage", pollId |-> id, ok |-> r.ok, error |-> r.error,
                 inputs |-> NoInputs, slots |-> <<>>,
                 message |-> m, encPubKey |-> encPubKey, before |-> polls[id]]
      /\ hist' = IF r.ok THEN Ingested(id) ELSE hist
      /\ UNCHANGED maciState

\* topupMessage called with any of the messages
TopupCrafted ==
  \E id \in DOMAIN polls, m \in CraftedMessages :
    \E r \in {TopupMessageCall(polls[id], m)} :
      /\ r.ok => CanIngest(id)
      /\ polls' = [polls EXCEPT ![id] = r.poll]
      /\ out' = [op |-> "topupMessage", pollId |-> id, ok |-> r.ok, error |-> r.error,
                 inputs |-> NoInputs, slots |-> <<>>,
                 message |-> m, encPubKey |-> PadKey, before |-> polls[id]]
      /\ hist' = IF r.ok THEN Ingested(id) ELSE hist
      /\ UNCHANGED maciState

NextRange ==
  \/ PublishCrafted
  \/ TopupCrafted
  \/ ProcessMessages
  \/ ProcessMessagesThrows

SpecRange == InitCall /\ [][NextRange]_vars

----------------------------------------------------------------------------
(* The calls made on a poll while voters still sign up *)

MaxLateSignUps == 1

\* signUp on the MaciState: a state leaf for the next voter is appended and
\* its hash inserted into the state tree
SignUp ==
  /\ maciState.numSignUps < NumSignUps + MaxLateSignUps
  /\ LET leaf == StateLeaf(UserKey(maciState.numSignUps + 1), InitialCredits, 0) IN
     maciState' = [maciState EXCEPT
                     !.stateLeaves = Append(@, leaf),
                     !.stateTree = TreeInsert(@, HashLeaf(leaf)),
                     !.numSignUps = @ + 1]
  /\ out' = Returned("signUp", 0)
  /\ UNCHANGED <<polls, hist>>

NextSignUp ==
  \/ PublishCountedVote
  \/ ProcessMessages
  \/ ProcessMessagesThrows
  \/ SignUp

SpecSignUp == InitCount /\ [][NextSignUp]_vars

----------------------------------------------------------------------------
(* The calls made on a poll and on copies of it *)

\* the outcomes of one call on poll c: the call, the poll and the MaciState
\* after it
CallsOn(c, maci) ==
  { [call |-> "publishMessage", poll |-> PublishMessageOp(c, m[1], m[2], randomKey),
     maci |-> maci] : m \in CountedVotes, randomKey \in RandomKeys }
  \cup { [call |-> "topupMessage", poll |-> TopupMessageOp(c, m), maci |-> maci] :
           m \in TopupPool }
  \cup { [call |-> "processMessages", poll |-> r.poll, maci |-> r.maci] :
           r \in { x \in { ProcessMessagesOp(c, maci, c.pollId, salt) : salt \in Salts } :
                      x.ok => x.saltAllowed } }
  \cup { [call |-> "tallyVotes", poll |-> r.poll, maci |-> maci] :
           r \in { TallyVotesOp(c, maci, salts, hashThrows) :
                     salts \in TallySalts, hashThrows \in BOOLEAN } }
  \cup { [call |-> "subsidyPerBatch", poll |-> r.poll, maci |-> maci] :
           r \in { SubsidyPerBatchOp(c, maci, salt, hashThrows) :
                     salt \in Salts, hashThrows \in BOOLEAN } }

\* copy() called on a poll, then one call made on the copy
CallOnCopy ==
  \E id \in DOMAIN polls :
    \E c \in {CopyOp(polls[id])} :
    \E r \in CallsOn(c.poll, maciState) :
      /\ polls' = [polls EXCEPT ![id] = SeenThrough(@, r.poll, c.shared)]
      /\ maciState' = r.maci
      /\ out' = [op |-> "copy", pollId |-> id, ok |-> TRUE, error |-> "none",
                 inputs |-> NoInputs, slots |-> <<>>,
                 call |-> r.call, original |-> polls[id], copied |-> c.poll,
                 equals |-> Equals(c.poll, polls[id]), called |-> r.poll]
      /\ UNCHANGED hist

\* fromJSON(p.toJSON(), maciState) called for a poll p
LoadFromJSON ==
  \E id \in DOMAIN polls, randomKey \in RandomKeys :
    \E q \in {FromJSON(ToJSON(polls[id]), maciState, Cardinality(DOMAIN polls), randomKey)} :
      /\ out' = [op |-> "fromJSON", pollId |-> id, ok |-> TRUE, error |-> "none",
                 inputs |-> NoInputs, slots |-> <<>>,
                 original |-> polls[id], loaded |-> q, equals |-> Equals(q, polls[id])]
      /\ UNCHANGED <<maciState, polls, hist>>

NextCopy ==
  \/ PublishCountedVote
  \/ ProcessMessages
  \/ ProcessMessagesThrows
  \/ CallOnCopy
  \/ LoadFromJSON

SpecCopy == InitCount /\ [][NextCopy]_vars

----------------------------------------------------------------------------
(* Properties of message ingest and of the batch processor *)

Square(x) == x * x

\* the slots of the batch the last call handled, when it was processMessages
LastSlots == IF out.op = "processMessages" /\ out.ok THEN out.slots ELSE <<>>

AlignedArrays(p) ==
  /\ Len(p.messages) = Len(p.encPubKeys)
  /\ Len(p.encPubKeys) = Len(p.commands)
  /\ Len(p.commands) = NextIndex(p.messageTree)

\* C1: on a poll that has only ingested messages (publishMessage and
\* topupMessage calls, failed decryptions included), messages, encPubKeys
\* and commands have the same length, which is messageTree.nextIndex.
C1_IngestKeepsArraysAligned ==
  \A id \in DOMAIN polls :
    polls[id].numBatchesProcessed = 0 => AlignedArrays(polls[id])

\* a poll that ingested a topup and a message whose decryption failed
C1_Witness ==
  \E id \in DOMAIN polls :
    LET p == polls[id] IN
    /\ p.numBatchesProcessed = 0
    /\ Len(p.messages) = MaxMessages
    /\ \E i \in DOMAIN p.commands : p.commands[i].cmdType = 2
    /\ \E i \in DOMAIN p.commands :
         /\ p.encPubKeys[i] = OtherEphKey
         /\ p.commands[i].newPubKey \in RandomKeys

\* C2: when no message is ingested after the first processMessages call, the
\* calls handle the message indices |messages|-1, |messages|-2, ... in this
\* order, and when hasUnprocessedMessages is false every index down to 0 has
\* been handled exactly once.
C2_ReverseOrder ==
  \A id \in DOMAIN polls :
    LET p == polls[id]
        n == Len(p.messages)
        order == hist[id].order
    IN hist[id].lateIngests = 0 =>
         /\ \A k \in DOMAIN order : order[k] = n - k
         /\ (p.numBatchesProcessed > 0 /\ ~HasUnprocessedMessages(p)) => Len(order) = n

\* three messages processed in two batches of two, the last batch partial
C2_Witness ==
  \E id \in DOMAIN polls :
    /\ hist[id].lateIngests = 0
    /\ polls[id].batchSizes.messageBatchSize = 2
    /\ polls[id].numBatchesProcessed = 2
    /\ ~HasUnprocessedMessages(polls[id])
    /\ hist[id].order = <<2, 1, 0>>

\* C4: for every vote command accepted in a batch, the voter's balance after
\* the command plus the square of the new weight equals the balance before
\* the command plus the square of the weight the ballot held for the option.
C4_CreditAccounting ==
  \A k \in DOMAIN LastSlots :
    LET s == LastSlots[k]
        i == s.command.stateIndex + 1
        o == s.command.voteOptionIndex + 1
    IN s.kind = "vote" =>
         s.after.stateLeaves[i].voiceCreditBalance + Square(s.command.newVoteWeight)
           = s.before.stateLeaves[i].voiceCreditBalance + Square(s.before.ballots[i].votes[o])

\* an accepted vote that replaces a weight the ballot already held
C4_Witness ==
  \E k \in DOMAIN LastSlots :
    LET s == LastSlots[k] IN
    /\ s.kind = "vote"
    /\ s.before.ballots[s.command.stateIndex + 1].votes[s.command.voteOptionIndex + 1] > 0
    /\ s.command.newVoteWeight > 0

\* C5: a vote message rejected with a ProcessMessageError leaves stateLeaves,
\* ballots, the state tree and the ballot tree as they were; its slot gets one
\* placeholder entry in the witness arrays, the data of index 0.
C5_RejectedChangesNothing ==
  \A k \in DOMAIN LastSlots :
    LET s == LastSlots[k] IN
    s.kind = "rejected" =>
      /\ s.after = s.before
      /\ Len(s.entry) = 1
      /\ s.entry[1].stateLeaf = s.before.stateLeaves[1]
      /\ s.entry[1].ballot = s.before.ballots[1]

\* a vote rejected for its cost, after an accepted vote changed the ballot
C5_Witness ==
  \E k \in DOMAIN LastSlots :
    /\ LastSlots[k].kind = "rejected"
    /\ LastSlots[k].error = "InsufficientVoiceCredits"
    /\ LastSlots[k].before.ballots[2].nonce = 1

\* the command of the vote message at index idx, as the coordinator reads it
CommandAt(p, idx) ==
  Decrypt(p.messages[idx + 1],
          GenEcdhSharedKey(p.coordinatorKeypair, p.encPubKeys[idx + 1])).command

C7_TreesFollowArrays ==
  \A id \in DOMAIN polls :
    LET p == polls[id] IN
    p.stateCopied =>
      /\ \A i \in DOMAIN p.stateLeaves :
           /\ i <= NextIndex(p.stateTree)
           /\ TreeLeaf(p.stateTree, i - 1) = HashLeaf(p.stateLeaves[i])
      /\ \A i \in DOMAIN p.ballots :
           /\ i <= NextIndex(p.ballotTree)
           /\ TreeLeaf(p.ballotTree, i - 1) = HashBallot(p.ballots[i])

\* a poll whose voter changed key, voted and was topped up
C7_Witness ==
  \E id \in DOMAIN polls :
    LET p == polls[id] IN
    /\ p.stateCopied
    /\ p.stateLeaves[2].pubKey = NewUserKey(1)
    /\ p.stateLeaves[2].voiceCreditBalance > InitialCredits
    /\ p.ballots[2].nonce = 1

\* C9: messages, encPubKeys and commands have the same length, which is
\* messageTree.nextIndex, after every public operation.
C9_AlignedAfterEveryOperation ==
  \A id \in DOMAIN polls : AlignedArrays(polls[id])

\* C10: for every i < |messages|, leaf i of the message tree is the hash of
\* messages[i] with encPubKeys[i], after every public operation.
C10_MessageLeaves ==
  \A id \in DOMAIN polls :
    LET p == polls[id] IN
    \A i \in DOMAIN p.messages :
      /\ i <= NextIndex(p.messageTree)
      /\ TreeLeaf(p.messageTree, i - 1) = HashMessage(p.messages[i], p.encPubKeys[i])

----------------------------------------------------------------------------
(* Properties of processMessage called on its own *)

RuleOrder ==
  <<"InvalidStateLeafIndex", "InvalidSignature", "InvalidNonce",
    "InvalidVoteOptionIndex", "InsufficientVoiceCredits">>

\* the rules a command breaks on poll p, each judged on its own; a rule that
\* reads the voter's leaf or ballot is broken by a command with a bad state
\* index when every leaf breaks it, and the credit rule is broken by a
\* command with a bad vote option when every option breaks it
BrokenRules(p, command, signature) ==
  LET i == command.stateIndex
      o == command.voteOptionIndex
      indexOk == i >= 1 /\ i < Len(p.ballots) /\ i < NextIndex(p.stateTree)
      optionOk == o >= 0 /\ o < p.maxValues.maxVoteOptions
      leaves == IF indexOk THEN {i + 1} ELSE DOMAIN p.stateLeaves \cap DOMAIN p.ballots
      options == IF optionOk THEN {o + 1} ELSE 1..p.maxValues.maxVoteOptions
  IN { rule \in {"InvalidStateLeafIndex"} : ~indexOk }
     \cup { rule \in {"InvalidSignature"} :
              \A t \in leaves : signature # p.stateLeaves[t].pubKey }
     \cup { rule \in {"InvalidNonce"} :
              \A t \in leaves : command.nonce # p.ballots[t].nonce + 1 }
     \cup { rule \in {"InvalidVoteOptionIndex"} : ~optionOk }
     \cup { rule \in {"InsufficientVoiceCredits"} :
              \A t \in leaves : \A v \in options :
                p.stateLeaves[t].voiceCreditBalance + Square(p.ballots[t].votes[v])
                  < Square(command.newVoteWeight) }

\* the rules the command of the last processMessage call breaks
LastBrokenRules ==
  LET p == polls[out.pollId]
      dec == Decrypt(out.message, GenEcdhSharedKey(p.coordinatorKeypair, out.encPubKey))
  IN IF out.op = "processMessage" /\ dec.ok
     THEN BrokenRules(p, dec.command, dec.signature)
     ELSE {}

\* C3: processMessage raises the error of the first rule, in the order state
\* leaf index, signature, nonce, vote option index, voice credits, that the
\* command breaks, whatever later rules it breaks too, and accepts a command
\* that breaks none.
C3_FirstBrokenRuleDecides ==
  out.op = "processMessage" =>
    LET p == polls[out.pollId]
        dec == Decrypt(out.message, GenEcdhSharedKey(p.coordinatorKeypair, out.encPubKey))
    IN dec.ok =>
         /\ out.ok <=> LastBrokenRules = {}
         /\ \A k \in DOMAIN RuleOrder :
              (/\ RuleOrder[k] \in LastBrokenRules
               /\ \A j \in 1..(k - 1) : RuleOrder[j] \notin LastBrokenRules)
                => out.error = RuleOrder[k]

\* a command with a bad nonce and an unaffordable weight, on a snapshotted
\* poll, reported as InvalidNonce
C3_Witness ==
  /\ out.op = "processMessage"
  /\ polls[out.pollId].stateCopied
  /\ out.error = "InvalidNonce"
  /\ {"InvalidNonce", "InsufficientVoiceCredits"} \subseteq LastBrokenRules

----------------------------------------------------------------------------
(* Properties of the snapshot under tallying *)

\* C8: once the snapshot is taken, and after every processMessages,
\* tallyVotes and subsidyPerBatch call that follows, stateLeaves, the state
\* tree, ballots and the ballot tree hold the same number of entries.
C8_SnapshotLengths ==
  \A id \in DOMAIN polls :
    LET p == polls[id] IN
    p.stateCopied =>
      /\ Len(p.stateLeaves) = NextIndex(p.stateTree)
      /\ NextIndex(p.stateTree) = Len(p.ballots)
      /\ Len(p.ballots) = NextIndex(p.ballotTree)

\* a snapshotted poll with a vote cast, tallied, its subsidy just calculated
C8_Witness ==
  \E id \in DOMAIN polls :
    LET p == polls[id] IN
    /\ p.stateCopied
    /\ Len(p.stateLeaves) = NumSignUps + 1
    /\ p.ballots[2].nonce = 1
    /\ p.numBatchesTallied > 0
    /\ out.op = "subsidyPerBatch" /\ out.ok

----------------------------------------------------------------------------
(* Properties of topups *)

\* C11: stateLeaves[0] is the blank state leaf in every reachable state.
C11_BlankLeafFixed ==
  \A id \in DOMAIN polls : polls[id].stateLeaves[1] = blankStateLeaf

\* the topup message of a slot of the last batch
TopupAt(s) == polls[out.pollId].messages[s.idx + 1]

\* C12: a topup naming a leaf (data[0] < |ballots|) adds exactly data[1] to
\* that leaf's voiceCreditBalance and changes no other state leaf and no
\* ballot; a topup naming no leaf changes no state leaf and no ballot.
C12_TopupFrame ==
  \A k \in DOMAIN LastSlots :
    LET s == LastSlots[k]
        d == TopupAt(s).data
        named == d[1] + 1
    IN s.kind = "topup" =>
         /\ s.after.ballots = s.before.ballots
         /\ DOMAIN s.after.stateLeaves = DOMAIN s.before.stateLeaves
         /\ IF d[1] < Len(s.before.ballots)
            THEN /\ s.after.stateLeaves[named] =
                      [s.before.stateLeaves[named] EXCEPT !.voiceCreditBalance = @ + d[2]]
                 /\ \A i \in DOMAIN s.before.stateLeaves :
                      i # named => s.after.stateLeaves[i] = s.before.stateLeaves[i]
            ELSE s.after.stateLeaves = s.before.stateLeaves

\* a batch holding a topup that names a voter's leaf and one that names no
\* leaf
C12_Witness ==
  /\ \E k \in DOMAIN LastSlots :
       /\ LastSlots[k].kind = "topup"
       /\ TopupAt(LastSlots[k]).data[1] = 1
  /\ \E k \in DOMAIN LastSlots :
       /\ LastSlots[k].kind = "topup"
       /\ TopupAt(LastSlots[k]).data[1] >= Len(LastSlots[k].before.ballots)

----------------------------------------------------------------------------
(* Properties of the processing lock *)

\* a poll in the middle of message processing: it completed a processMessages
\* call and has messages, all ingested before that call, left to process
MidProcessing(id) ==
  /\ polls[id].numBatchesProcessed > 0
  /\ HasUnprocessedMessages(polls[id])
  /\ hist[id].lateIngests = 0

\* C13: at most one poll attached to the MaciState is in the middle of
\* message processing.
C13_OnePollMidProcessing ==
  \A a, b \in DOMAIN polls : (MidProcessing(a) /\ MidProcessing(b)) => a = b

\* poll a has started message processing and holds the lock
HoldsLock(a) ==
  /\ MidProcessing(a)
  /\ maciState.pollBeingProcessed
  /\ maciState.currentPollBeingProcessed = a

\* C14: while poll a holds the lock, every processMessages call for another
\* poll b fails and leaves the MaciState and the polls as they were.
C14_OtherPollRefused ==
  [][ \A a, b \in DOMAIN polls :
        (HoldsLock(a) /\ b # a /\ out'.op = "processMessages" /\ out'.pollId = b)
          => (~out'.ok /\ maciState' = maciState /\ polls' = polls) ]_vars

\* C15: on a poll processed alone, with no message ingested after its first
\* batch, the lock is held by the poll after every processMessages call that
\* leaves messages unprocessed and is free after the call that leaves none.
C15_LockHeldUntilDone ==
  (out.op = "processMessages" /\ out.ok /\ hist[out.pollId].lateIngests = 0) =>
    IF HasUnprocessedMessages(polls[out.pollId])
    THEN /\ maciState.pollBeingProcessed
         /\ maciState.currentPollBeingProcessed = out.pollId
    ELSE ~maciState.pollBeingProcessed

\* the last of three batches of one message each has just released the lock
C15_Witness ==
  /\ out.op = "processMessages" /\ out.ok
  /\ hist[out.pollId].lateIngests = 0
  /\ polls[out.pollId].numBatchesProcessed = MaxMessages
  /\ ~HasUnprocessedMessages(polls[out.pollId])
  /\ ~maciState.pollBeingProcessed

----------------------------------------------------------------------------
(* Properties of full processing *)

\* a poll constructed with message batch size batchSize that ingested the
\* messages of p
SameMessages(p, batchSize) ==
  LET fresh == NewPoll(p.coordinatorKeypair,
                       [p.batchSizes EXCEPT !.messageBatchSize = batchSize], p.pollId)
  IN [fresh EXCEPT
        !.messages = p.messages,
        !.encPubKeys = p.encPubKeys,
        !.commands = p.commands,
        !.messageTree = TreeInsertAll(@, [i \in DOMAIN p.messages |->
                                           HashMessage(p.messages[i], p.encPubKeys[i])])]

\* processMessages repeated on p until hasUnprocessedMessages is false
RECURSIVE RunToEnd(_, _)
RunToEnd(p, maci) ==
  IF ~HasUnprocessedMessages(p) THEN p
  ELSE Bind(ProcessMessagesOp(p, maci, p.pollId,
                              IF p.numBatchesProcessed = 0
                                 \/ MapGet(p.sbSalts, p.currentMessageBatchIndex) = 0
                              THEN 1 ELSE 0),
            LAMBDA r : IF r.ok THEN RunToEnd(r.poll, r.maci) ELSE p)

\* C16: when a poll has processed all its messages (none ingested after the
\* first batch), its stateLeaves, ballots, state root and ballot root are
\* those that full processing of the same messages from the same snapshot
\* reaches with every other message batch size.
C16_BatchSizeIndependent ==
  \A id \in DOMAIN polls :
    LET p == polls[id] IN
    (p.numBatchesProcessed > 0 /\ ~HasUnprocessedMessages(p) /\ hist[id].lateIngests = 0) =>
      \A batchSize \in MessageBatchSizes :
        LET other == RunToEnd(SameMessages(p, batchSize), NewMaciState(NumSignUps)) IN
        /\ other.stateLeaves = p.stateLeaves
        /\ other.ballots = p.ballots
        /\ TreeRoot(other.stateTree) = TreeRoot(p.stateTree)
        /\ TreeRoot(other.ballotTree) = TreeRoot(p.ballotTree)

\* three messages whose order matters (a vote and a key change with the same
\* nonce), processed in two batches
C16_Witness ==
  \E id \in DOMAIN polls :
    LET p == polls[id] IN
    /\ p.numBatchesProcessed = 2 /\ ~HasUnprocessedMessages(p)
    /\ hist[id].lateIngests = 0
    /\ p.batchSizes.messageBatchSize = 2
    /\ Len(p.messages) = 3
    /\ \E i, j \in DOMAIN p.commands :
         /\ i < j
         /\ p.commands[i].cmdType = 1 /\ p.commands[j].cmdType = 1
         /\ p.commands[i].nonce = 1 /\ p.commands[j].nonce = 1
         /\ p.commands[i].newPubKey # p.commands[j].newPubKey
         /\ p.encPubKeys[i] = EphKey /\ p.encPubKeys[j] = EphKey

\* C17: the first processMessages call of a poll emits currentSbSalt 0, and
\* every later call emits as currentSbSalt and currentSbCommitment the
\* newSbSalt and newSbCommitment the call before it emitted.
C17_CommitmentsChain ==
  (out.op = "processMessages" /\ out.ok) =>
    LET emitted == hist[out.pollId].emitted
        k == Len(emitted)
    IN /\ emitted[k].salt = out.inputs.newSbSalt
       /\ emitted[k].commitment = out.inputs.newSbCommitment
       /\ IF k = 1
          THEN out.inputs.currentSbSalt = 0
          ELSE /\ out.inputs.currentSbSalt = emitted[k - 1].salt
               /\ out.inputs.currentSbCommitment = emitted[k - 1].commitment

\* the third call on a poll whose second batch changed the state root
C17_Witness ==
  /\ out.op = "processMessages" /\ out.ok
  /\ Len(hist[out.pollId].emitted) = 3
  /\ hist[out.pollId].emitted[1].commitment.hash3[1]
       # hist[out.pollId].emitted[2].commitment.hash3[1]
  /\ hist[out.pollId].emitted[2].salt # 0

----------------------------------------------------------------------------
(* Properties of the tally *)

\* the ballots tallyVotes counted are the ballots of the poll as they are now
CountedAsTheyAre(id) ==
  [k \in DOMAIN hist[id].counted |-> hist[id].counted[k].ballot] = polls[id].ballots

\* C18: once tallyVotes has reached every ballot, the ballots being what
\* they were when they were counted, tallyResult[j] is the sum of votes[j]
\* over all ballots, perVOSpentVoiceCredits[j] the sum of the squares of
\* votes[j], and totalSpentVoiceCredits the sum of perVOSpentVoiceCredits.
C18_TallyLaw ==
  \A id \in DOMAIN polls :
    LET p == polls[id] IN
    (Len(p.ballots) > 0 /\ ~HasUntalliedBallots(p) /\ CountedAsTheyAre(id)) =>
      /\ p.tallyResult = SumVotes(p.ballots, p.maxValues.maxVoteOptions)
      /\ p.perVOSpentVoiceCredits = SumSquaredVotes(p.ballots, p.maxValues.maxVoteOptions)
      /\ SumSeq(p.perVOSpentVoiceCredits) = p.totalSpentVoiceCredits

\* a tally of two batches that counted a vote of weight 2
C18_Witness ==
  \E id \in DOMAIN polls :
    LET p == polls[id] IN
    /\ ~HasUntalliedBallots(p) /\ CountedAsTheyAre(id)
    /\ p.numBatchesTallied = 2
    /\ p.totalSpentVoiceCredits = 4
    /\ \E j \in DOMAIN p.tallyResult : p.tallyResult[j] = 2

\* the number of tallyVotes calls that reach every ballot of p
TallyBatches(p) == Ceil(Len(p.ballots), p.batchSizes.tallyBatchSize)

\* the calls that returned are the batches tallied, never more than
\* TallyBatches; together they counted the ballot indices from 0 on, each
\* once; and no ballot is left when, and only when, all batches are done
TalliedInBatches ==
  \A id \in DOMAIN polls :
    LET p == polls[id]
        counted == hist[id].counted
        reached == p.numBatchesTallied * p.batchSizes.tallyBatchSize
    IN /\ hist[id].tallies = p.numBatchesTallied
       /\ hist[id].tallies <= TallyBatches(p)
       /\ Len(counted) = IF reached < Len(p.ballots) THEN reached ELSE Len(p.ballots)
       /\ \A k \in DOMAIN counted : counted[k].index = k - 1
       /\ ~HasUntalliedBallots(p) <=> hist[id].tallies = TallyBatches(p)

\* a tallyVotes call on a poll with no ballot left throws and leaves the
\* tally as it was
TallyIsTerminal ==
  \A id \in DOMAIN polls :
    (out'.op = "tallyVotes" /\ out'.pollId = id /\ ~HasUntalliedBallots(polls[id])) =>
      /\ ~out'.ok
      /\ polls'[id].tallyResult = polls[id].tallyResult
      /\ polls'[id].perVOSpentVoiceCredits = polls[id].perVOSpentVoiceCredits
      /\ polls'[id].totalSpentVoiceCredits = polls[id].totalSpentVoiceCredits
      /\ polls'[id].numBatchesTallied = polls[id].numBatchesTallied

\* C19: tallyVotes returns exactly ceil(|ballots| / tallyBatchSize) times,
\* the calls counting every ballot index once; from then on
\* hasUntalliedBallots is false and every tallyVotes call throws without
\* changing tallyResult, perVOSpentVoiceCredits, totalSpentVoiceCredits or
\* numBatchesTallied.
C19_TallyTerminates == []TalliedInBatches /\ [][TallyIsTerminal]_vars

\* a tallyVotes call that threw after two batches had counted every ballot
C19_Witness ==
  /\ out.op = "tallyVotes" /\ ~out.ok
  /\ LET p == polls[out.pollId] IN
       /\ Len(p.ballots) > 0
       /\ p.numBatchesTallied = 2
       /\ hist[out.pollId].tallies = TallyBatches(p)
       /\ Len(hist[out.pollId].counted) = Len(p.ballots)
       /\ p.totalSpentVoiceCredits > 0

\* C20: no tallyVotes and no subsidyPerBatch call returns while the poll
\* still has unprocessed messages.
C20_TallyAfterProcessing ==
  (out.op \in {"tallyVotes", "subsidyPerBatch"} /\ out.ok) =>
    ~HasUnprocessedMessages(polls[out.pollId])

----------------------------------------------------------------------------
(* Properties of the subsidy calculation *)

\* the number of row and column batches of p
SubsidyBatches(p) == Ceil(Len(p.ballots), p.batchSizes.subsidyBatchSize)

\* the block pairs (rbi, cbi) with rbi <= cbi < nb in row-major order, from
\* (rbi, cbi) on
RECURSIVE RowMajorFrom(_, _, _)
RowMajorFrom(rbi, cbi, nb) ==
  IF rbi >= nb THEN <<>>
  ELSE IF cbi >= nb THEN RowMajorFrom(rbi + 1, rbi + 1, nb)
  ELSE <<(<<rbi, cbi>>)>> \o RowMajorFrom(rbi, cbi + 1, nb)

\* the calls that returned visited the first block pairs of the row-major
\* order, and a batch is left when, and only when, fewer than nb(nb+1)/2
\* calls have returned
VisitedRowMajor ==
  \A id \in DOMAIN polls :
    LET p == polls[id]
        nb == SubsidyBatches(p)
        visited == hist[id].visited
        pairs == RowMajorFrom(0, 0, nb)
    IN /\ Len(pairs) = (nb * (nb + 1)) \div 2
       /\ Len(visited) <= Len(pairs)
       /\ \A k \in DOMAIN visited : <<visited[k].rbi, visited[k].cbi>> = pairs[k]
       /\ HasUnfinishedSubsidyCalculation(p) <=> Len(visited) < Len(pairs)

\* a subsidyPerBatch call on a poll with no batch left throws and leaves
\* the poll as it was
SubsidyIsTerminal ==
  \A id \in DOMAIN polls :
    (out'.op = "subsidyPerBatch" /\ out'.pollId = id
       /\ ~HasUnfinishedSubsidyCalculation(polls[id])) =>
      (~out'.ok /\ polls'[id] = polls[id])

\* C21: with nb = ceil(|ballots| / subsidyBatchSize), the subsidyPerBatch
\* calls that return visit the block pairs (rbi, cbi), 0 <= rbi <= cbi < nb,
\* in row-major order, each once; after nb(nb+1)/2 of them
\* hasUnfinishedSubsidyCalculation is false and a further call throws.
C21_SubsidyVisitsRowMajor == []VisitedRowMajor /\ [][SubsidyIsTerminal]_vars

\* a call that threw after (0,0), (0,1), (1,1) had been visited
C21_Witness ==
  /\ out.op = "subsidyPerBatch" /\ ~out.ok
  /\ SubsidyBatches(polls[out.pollId]) = 2
  /\ Len(polls[out.pollId].ballots) % polls[out.pollId].batchSizes.subsidyBatchSize # 0
  /\ [k \in 1..3 |-> <<hist[out.pollId].visited[k].rbi, hist[out.pollId].visited[k].cbi>>]
       = << <<0, 0>>, <<0, 1>>, <<1, 1>> >>
  /\ Len(hist[out.pollId].visited) = 3

\* 2 * k_ij * v_i[option] * v_j[option] for the ballots i and j (from 1)
PairTerm(ballots, i, j, option) ==
  2 * CoefficientCalculation(ballots[i], ballots[j])
    * ballots[i].votes[option] * ballots[j].votes[option]

\* the sum of PairTerm over the pairs i < j, taken from the pair (i, j) on
RECURSIVE SumPairsFrom(_, _, _, _)
SumPairsFrom(ballots, i, j, option) ==
  IF i >= Len(ballots) THEN 0
  ELSE IF j > Len(ballots) THEN SumPairsFrom(ballots, i + 1, i + 2, option)
  ELSE PairTerm(ballots, i, j, option) + SumPairsFrom(ballots, i, j + 1, option)

ExpectedSubsidy(p) ==
  [option \in 1..p.maxValues.maxVoteOptions |-> SumPairsFrom(p.ballots, 1, 2, option)]

\* the subsidyPerBatch call that visited the last block pair has returned
SubsidyJustFinished ==
  /\ out.op = "subsidyPerBatch" /\ out.ok
  /\ Len(polls[out.pollId].ballots) > 0
  /\ ~HasUnfinishedSubsidyCalculation(polls[out.pollId])

\* C22: when the subsidy calculation has finished, subsidy[option] is the
\* sum over the pairs of ballots i < j of 2 * k_ij * v_i[option] * v_j[option].
C22_SubsidyLaw ==
  SubsidyJustFinished => polls[out.pollId].subsidy = ExpectedSubsidy(polls[out.pollId])

\* the same, for a calculation every call of which read the ballots as they
\* are now
C22_SubsidyLawOnFixedBallots ==
  (SubsidyJustFinished
     /\ \A k \in DOMAIN hist[out.pollId].visited :
          hist[out.pollId].visited[k].ballots = polls[out.pollId].ballots) =>
    polls[out.pollId].subsidy = ExpectedSubsidy(polls[out.pollId])

----------------------------------------------------------------------------
(* Properties of copy, equals, toJSON and fromJSON *)

C24_CopyContinuesAlike ==
  out.op = "copy" =>
    /\ out.copied.stateTree = out.original.stateTree
    /\ out.copied.ballotTree = out.original.ballotTree
    /\ out.copied.messageTree = out.original.messageTree
    /\ LET onCopy == RunToEnd(out.copied, maciState)
           onPoll == RunToEnd(out.original, maciState)
       IN /\ onCopy.stateLeaves = onPoll.stateLeaves
          /\ onCopy.ballots = onPoll.ballots
          /\ onCopy.stateTree = onPoll.stateTree
          /\ onCopy.ballotTree = onPoll.ballotTree

\* C25: the poll loaded from the JSON of a poll equals the poll and has its
\* message tree, state tree and ballot tree roots.
C25_RoundTripEquals ==
  out.op = "fromJSON" =>
    /\ out.equals
    /\ TreeRoot(out.loaded.messageTree) = TreeRoot(out.original.messageTree)
    /\ out.original.stateCopied =>
         /\ TreeRoot(out.loaded.stateTree) = TreeRoot(out.original.stateTree)
         /\ TreeRoot(out.loaded.ballotTree) = TreeRoot(out.original.ballotTree)

\* C26: the poll loaded from the JSON of a poll has the poll's messages,
\* commands, ballots, encPubKeys, stateLeaves, tally results,
\* currentMessageBatchIndex and numBatchesProcessed.
C26_RoundTripKeepsFields ==
  out.op = "fromJSON" =>
    /\ out.loaded.messages = out.original.messages
    /\ out.loaded.commands = out.original.commands
    /\ out.loaded.ballots = out.original.ballots
    /\ out.loaded.encPubKeys = out.original.encPubKeys
    /\ out.loaded.stateLeaves = out.original.stateLeaves
    /\ out.loaded.tallyResult = out.original.tallyResult
    /\ out.loaded.currentMessageBatchIndex = out.original.currentMessageBatchIndex
    /\ out.loaded.numBatchesProcessed = out.original.numBatchesProcessed

\* C27: with the same inputs and the same genRandomSalt values a call has
\* one outcome: publishMessage and fromJSON, which draw no salt, leave the
\* same poll (commands and JSON included) in every run.
C27_OnlySaltsAreRandom ==
  \A id \in DOMAIN polls :
    \A oneRun, otherRun \in RandomKeys :
      /\ \A m \in VotePool :
           LET one == PublishMessageOp(polls[id], m[1], m[2], oneRun)
               other == PublishMessageOp(polls[id], m[1], m[2], otherRun)
           IN one.commands = other.commands /\ ToJSON(one) = ToJSON(other)
      /\ FromJSON(ToJSON(polls[id]), maciState, Cardinality(DOMAIN polls), oneRun)
           = FromJSON(ToJSON(polls[id]), maciState, Cardinality(DOMAIN polls), otherRun)

----------------------------------------------------------------------------
(* Properties of the assertions of message ingest *)

\* the last call was given a message of the wrong type, a data word out of
\* the field or, for publishMessage, a key with a coordinate out of the field
OutOfRangeCall ==
  /\ out.op \in {"publishMessage", "topupMessage"}
  /\ "message" \in DOMAIN out
  /\ \/ out.message.msgType # (IF out.op = "publishMessage" THEN 1 ELSE 2)
     \/ \E i \in DOMAIN out.message.data : out.message.data[i] >= SNARK_FIELD_SIZE
     \/ /\ out.op = "publishMessage"
        /\ \E k \in 1..2 : RawPubKey(out.encPubKey)[k] >= SNARK_FIELD_SIZE

\* C29: a publishMessage call with msgType other than 1, with an encPubKey
\* coordinate or a data word that is not below SNARK_FIELD_SIZE, and a
\* topupMessage call with msgType other than 2 or such a data word, throw
\* and leave messages, encPubKeys, commands and the message tree as they were.
C29_AssertionsBeforeIngest ==
  OutOfRangeCall =>
    /\ ~out.ok
    /\ polls[out.pollId].messages = out.before.messages
    /\ polls[out.pollId].encPubKeys = out.before.encPubKeys
    /\ polls[out.pollId].commands = out.before.commands
    /\ polls[out.pollId].messageTree = out.before.messageTree

\* a topup whose last data word is out of the field, refused by a poll that
\* holds a message
C29_Witness ==
  /\ OutOfRangeCall /\ ~out.ok
  /\ out.op = "topupMessage"
  /\ out.message.msgType = 2
  /\ out.message.data[9] = SNARK_FIELD_SIZE
  /\ Len(polls[out.pollId].messages) > 0

----------------------------------------------------------------------------
(* Properties of the snapshot *)

\* a poll that has processed a batch has as many state leaves and ballots,
\* in its arrays and in its trees, as the MaciState had state leaves when the
\* poll's first batch was processed, each with the timestamp it had then
SnapshotKept ==
  \A id \in DOMAIN polls :
    LET p == polls[id]
        taken == hist[id].snapshot
    IN p.numBatchesProcessed > 0 =>
         /\ Len(p.stateLeaves) = Len(taken)
         /\ Len(p.ballots) = Len(taken)
         /\ NextIndex(p.stateTree) = Len(taken)
         /\ NextIndex(p.ballotTree) = Len(taken)
         /\ \A i \in DOMAIN taken : p.stateLeaves[i].timestamp = taken[i].timestamp

\* a call on a poll leaves the state leaves and the state tree of the
\* MaciState as they were, and a sign-up leaves the polls as they were
SnapshotIsApart ==
  /\ out'.op # "signUp" =>
       /\ maciState'.stateLeaves = maciState.stateLeaves
       /\ maciState'.stateTree = maciState.stateTree
  /\ out'.op = "signUp" => polls' = polls

\* C28: the snapshot is taken once and is apart from the MaciState: no call
\* on a poll changes the state leaves or the state tree of the MaciState,
\* and a sign-up made after the first batch changes neither the poll's
\* stateLeaves and ballots nor its trees, later processMessages calls
\* included.
C28_SnapshotTakenOnce == []SnapshotKept /\ [][SnapshotIsApart]_vars

\* a second batch processed after a voter signed up behind the snapshot
C28_Witness ==
  /\ out.op = "processMessages" /\ out.ok
  /\ polls[out.pollId].numBatchesProcessed = 2
  /\ Len(maciState.stateLeaves) > Len(polls[out.pollId].stateLeaves)
  /\ Len(hist[out.pollId].snapshot) = Len(polls[out.pollId].stateLeaves)

----------------------------------------------------------------------------
(* Properties of the witness placeholders *)

\* the witness entry made of leaf 0, ballot 0, its first vote weight and the
\* paths to index 0, in the poll state a slot found
PlaceholderOf(before) ==
  [stateLeaf |-> before.stateLeaves[1],
   stateLeafPathElements |-> [index |-> 0, root |-> TreeRoot(before.stateTree)],
   ballot |-> before.ballots[1],
   ballotPathElements |-> [index |-> 0, root |-> TreeRoot(before.ballotTree)],
   voteWeight |-> before.ballots[1].votes[1],
   voteWeightPathElements |->
     [index |-> 0, root |-> [rootOf |-> StripZeros(<<before.ballots[1].votes[1]>>, 0)]]]

\* C30: a slot holding a rejected vote message and a slot past the end of
\* messages both produce the witness entry made of stateLeaves[0],
\* ballots[0], ballots[0].votes[0] and the paths to index 0, so that in the
\* same poll state they produce the same entry whichever rule rejected the
\* message.
C30_RejectedLikeBlank ==
  \A k \in DOMAIN LastSlots :
    LastSlots[k].kind \in {"rejected", "blank"} =>
      LastSlots[k].entry = <<PlaceholderOf(LastSlots[k].before)>>

\* a first batch with a slot past the end and a rejected vote that found the
\* same poll state, its snapshot holding a voter's leaf
C30_Witness ==
  \E j, k \in DOMAIN LastSlots :
    /\ LastSlots[j].kind = "blank" /\ LastSlots[k].kind = "rejected"
    /\ LastSlots[j].before = LastSlots[k].before
    /\ LastSlots[j].entry = LastSlots[k].entry
    /\ polls[out.pollId].numBatchesProcessed = 1
    /\ \E i \in DOMAIN LastSlots[k].before.stateLeaves :
         LastSlots[k].before.stateLeaves[i].pubKey # BlankKey

----------------------------------------------------------------------------
(* The number of batches of processMessages *)

\* max(1, ceil(n / b))
BatchesOf(n, b) == IF Ceil(n, b) > 1 THEN Ceil(n, b) ELSE 1

\* the next processMessages call on poll id returns, whatever salt it draws
NextCallReturns(id) ==
  \A salt \in Salts : ProcessMessagesOp(polls[id], maciState, id, salt).ok

\* C31: a poll with n messages and message batch size b that took no message
\* after its first processMessages call lets processMessages return exactly
\* max(1, ceil(n / b)) times: while fewer calls have returned the next call
\* returns, and once that many have returned hasUnprocessedMessages is false
\* and the next call throws; a poll without messages lets it return once
C31_BatchCount ==
  \A id \in DOMAIN polls :
    hist[id].lateIngests = 0 =>
      LET p == polls[id]
          total == BatchesOf(Len(p.messages), p.batchSizes.messageBatchSize)
          returned == Len(hist[id].emitted)
      IN /\ returned <= total
         /\ returned = p.numBatchesProcessed
         /\ returned < total => HasUnprocessedMessages(p) /\ NextCallReturns(id)
         /\ returned = total =>
              /\ ~HasUnprocessedMessages(p)
              /\ ProcessMessagesOp(p, maciState, id, 0).error = "No more messages to process"

\* three messages in batches of two: two calls have returned and the third
\* has thrown
C31_Witness ==
  /\ out.op = "processMessages" /\ ~out.ok
  /\ hist[out.pollId].lateIngests = 0
  /\ Len(polls[out.pollId].messages) = 3
  /\ polls[out.pollId].batchSizes.messageBatchSize = 2
  /\ Len(hist[out.pollId].emitted) = 2

\* a poll without messages after its one batch
C31_ZeroMessages ==
  /\ out.op = "processMessages" /\ out.ok
  /\ polls[out.pollId].messages = <<>>
  /\ Len(hist[out.pollId].emitted) = 1
  /\ ~HasUnprocessedMessages(polls[out.pollId])

----------------------------------------------------------------------------
(* The chain of tally commitments *)

\* the last call was a tallyVotes call that returned
TallyReturned == out.op = "tallyVotes" /\ out.ok

\* C32: the first tallyVotes call that returns emits the current tally
\* commitment 0 and the three current salts 0; every later one emits as
\* current tally commitment the new tally commitment of the tallyVotes call
\* that returned before it, and as current salts the new salts of that call
C32_TallyCommitmentsChain ==
  [][TallyReturned' /\ out' # out =>
       LET before == hist[out'.pollId]
           now == out'.inputs
       IN IF before.tallies = 0
          THEN /\ now.currentTallyCommitment = ZeroCommitment
               /\ now.currentResultsRootSalt = 0
               /\ now.currentPerVOSpentVoiceCreditsRootSalt = 0
               /\ now.currentSpentVoiceCreditSubtotalSalt = 0
          ELSE /\ now.currentTallyCommitment = before.lastTally.newTallyCommitment
               /\ now.currentResultsRootSalt = before.lastTally.newResultsRootSalt
               /\ now.currentPerVOSpentVoiceCreditsRootSalt =
                    before.lastTally.newPerVOSpentVoiceCreditsRootSalt
               /\ now.currentSpentVoiceCreditSubtotalSalt =
                    before.lastTally.newSpentVoiceCreditSubtotalSalt]_vars

\* the chain of tally commitments between two tallyVotes calls with no
\* processMessages call between them
C32_ChainOnFixedBallots ==
  [][TallyReturned /\ TallyReturned' /\ out' # out /\ out'.pollId = out.pollId =>
       out'.inputs.currentTallyCommitment = out.inputs.newTallyCommitment]_vars

----------------------------------------------------------------------------
(* The chain of subsidy commitments *)

SubsidyReturned == out.op = "subsidyPerBatch" /\ out.ok

\* C33: the first subsidyPerBatch call that returns emits the current subsidy
\* commitment 0 and the current salt 0; every later one reads its current salt
\* under the key "rbi-cbi" the call before it stored its new salt under, also
\* when that call ended a row, and emits as current subsidy commitment and
\* salt the new commitment and salt of that call
C33_SubsidyCommitmentsChain ==
  [][SubsidyReturned' /\ out' # out =>
       LET before == hist[out'.pollId]
           p == polls[out'.pollId]
           now == out'.inputs
       IN IF before.visited = <<>>
          THEN /\ now.currentSubsidyCommitment = ZeroCommitment
               /\ now.currentSubsidySalt = 0
          ELSE LET last == before.visited[Len(before.visited)] IN
               /\ PreviousSubsidyIndexToString(p) = SubsidyIndexToString(last.rbi, last.cbi)
               /\ now.currentSubsidySalt = before.lastSubsidy.newSubsidySalt
               /\ now.currentSubsidyCommitment = before.lastSubsidy.newSubsidyCommitment]_vars

\* a call that returned as the first of a row after the first, the call
\* before it having drawn a salt other than the first call's
C33_Witness ==
  /\ SubsidyReturned
  /\ LET v == hist[out.pollId].visited
         p == polls[out.pollId]
     IN /\ Len(v) >= 3
        /\ v[Len(v)].rbi > 0 /\ v[Len(v)].cbi = v[Len(v)].rbi
        /\ v[Len(v) - 1].rbi = v[Len(v)].rbi - 1
        /\ out.inputs.currentSubsidySalt = p.subsidySalts[<<v[Len(v) - 1].rbi, v[Len(v) - 1].cbi>>]
        /\ out.inputs.currentSubsidySalt # p.subsidySalts[<<0, 0>>]

----------------------------------------------------------------------------
(* The state and ballot commitment of the tally and of the subsidy *)

\* what the last processMessages call on poll id that returned has emitted
LastEmitted(id) == hist[id].emitted[Len(hist[id].emitted)]

\* C34: once message processing has completed, every tallyVotes and every
\* subsidyPerBatch call that returns emits as sbSalt and sbCommitment the
\* newSbSalt and newSbCommitment of the last processMessages call, whether
\* the messages took one batch or several
C34_SbCommitmentIsLastEmitted ==
  (TallyReturned \/ SubsidyReturned) /\ ProcessingCompleted(out.pollId) =>
     /\ out.inputs.sbSalt = LastEmitted(out.pollId).salt
     /\ out.inputs.sbCommitment = LastEmitted(out.pollId).commitment

\* two messages were processed in two batches, after which a subsidyPerBatch
\* call and then a tallyVotes call have returned
C34_Witness ==
  /\ TallyReturned
  /\ ProcessingCompleted(out.pollId)
  /\ Len(hist[out.pollId].emitted) = 2
  /\ Len(polls[out.pollId].messages) = 2
  /\ hist[out.pollId].lastSubsidy # NoInputs
  /\ hist[out.pollId].lastSubsidy.sbCommitment = LastEmitted(out.pollId).commitment
  /\ out.inputs.sbCommitment = LastEmitted(out.pollId).commitment
  /\ out.inputs.sbSalt = 1

----------------------------------------------------------------------------
(* The salts of the state and ballot commitment *)

ProcessReturned == out.op = "processMessages" /\ out.ok

\* C35: a processMessages call that returns emits a newSbSalt other than its
\* currentSbSalt, whatever genRandomSalt returns and whether or not the call
\* has moved the batch index down
C35_NewSaltDiffers ==
  ProcessReturned => out.inputs.newSbSalt # out.inputs.currentSbSalt

\* the same of the calls that leave the batch index where it is
C35_NewSaltDiffersAtIndexZero ==
  ProcessReturned /\ out.inputs.batchStartIndex = 0 =>
    out.inputs.newSbSalt # out.inputs.currentSbSalt

----------------------------------------------------------------------------
(* The witness of a batch *)

\* the place of message slot idx in the per-slot arrays of the last call
PlaceOf(idx) == idx - out.inputs.batchStartIndex + 1

\* the vote option whose weight the slot records: that of the command for a
\* vote, option 0 for a topup
RecordedOption(s) == IF s.kind = "vote" THEN s.command.voteOptionIndex ELSE 0

\* C36: for every accepted vote message and every topup message of a batch,
\* the state leaf, the ballot and the vote weight emitted at the slot of the
\* message are those the poll holds at the state index of the message just
\* before the message is applied, which is after every message of a higher
\* index in the batch has been applied
C36_WitnessIsBeforeImage ==
  ProcessReturned =>
    /\ \A k \in 2..Len(out.slots) :
         /\ out.slots[k].before = out.slots[k - 1].after
         /\ out.slots[k].idx < out.slots[k - 1].idx
    /\ \A k \in DOMAIN out.slots :
         LET s == out.slots[k]
             target == s.command.stateIndex + 1
         IN s.kind \in {"vote", "topup"} =>
              /\ out.inputs.currentStateLeaves[PlaceOf(s.idx)] = s.before.stateLeaves[target]
              /\ out.inputs.currentBallots[PlaceOf(s.idx)] = s.before.ballots[target]
              /\ out.inputs.currentVoteWeights[PlaceOf(s.idx)] =
                   s.before.ballots[target].votes[RecordedOption(s) + 1]

\* a batch of a vote and, after it, a topup of the same leaf: the vote is
\* applied second and its slot holds the leaf the topup has credited, the
\* topup's slot the leaf as it was snapshotted
C36_Witness ==
  /\ ProcessReturned
  /\ \E j, k \in DOMAIN out.slots :
       LET t == out.slots[j]
           v == out.slots[k]
       IN /\ t.kind = "topup" /\ v.kind = "vote" /\ v.idx < t.idx
          /\ t.command.stateIndex = v.command.stateIndex
          /\ out.inputs.currentStateLeaves[PlaceOf(t.idx)].voiceCreditBalance = InitialCredits
          /\ out.inputs.currentStateLeaves[PlaceOf(v.idx)].voiceCreditBalance
               = InitialCredits + t.command.amount
          /\ t.command.amount > 0

\* the per-slot arrays of the circuit inputs
PerSlotArrays(inputs) ==
  <<inputs.currentStateLeaves, inputs.currentStateLeavesPathElements,
    inputs.currentBallots, inputs.currentBallotsPathElements,
    inputs.currentVoteWeights, inputs.currentVoteWeightsPathElements,
    inputs.msgs, inputs.encPubKeys>>

\* every per-slot array of the last call has one entry per slot of the batch,
\* entry j being that of message slot batchStartIndex + j: the message and key
\* published there, or copies of the last ones past the end, and the data the
\* loop has recorded for the slot
BatchArraysFull ==
  LET p == polls[out.pollId]
      batchSize == p.batchSizes.messageBatchSize
      start == out.inputs.batchStartIndex
      arrays == PerSlotArrays(out.inputs)
  IN /\ \A a \in DOMAIN arrays : Len(arrays[a]) = batchSize
     /\ Len(out.slots) = batchSize
     /\ \A j \in 0..(batchSize - 1) :
          LET at == IF start + j < Len(p.messages) THEN start + j + 1 ELSE Len(p.messages)
              s == out.slots[batchSize - j]
          IN /\ out.inputs.msgs[j + 1] = p.messages[at]
             /\ out.inputs.encPubKeys[j + 1] = p.encPubKeys[at]
             /\ s.idx = start + j
             /\ s.kind = "blank" <=> start + j >= Len(p.messages)
             /\ s.entry = <<WitnessEntry(out.inputs.currentStateLeaves[j + 1],
                                         out.inputs.currentStateLeavesPathElements[j + 1],
                                         out.inputs.currentBallots[j + 1],
                                         out.inputs.currentBallotsPathElements[j + 1],
                                         out.inputs.currentVoteWeights[j + 1],
                                         out.inputs.currentVoteWeightsPathElements[j + 1])>>

\* C37: every processMessages call that returns emits messageBatchSize entries
\* in each per-slot array (the state leaves, ballots, vote weights, their
\* three path arrays, msgs and encPubKeys), entry j being that of message slot
\* batchStartIndex + j, also for a last batch that the messages do not fill
\* and for a poll without messages
C37_BatchArraysFull ==
  ProcessReturned => BatchArraysFull

\* the same of the polls that hold a message
C37_BatchArraysFullWithMessages ==
  ProcessReturned /\ polls[out.pollId].messages # <<>> => BatchArraysFull

----------------------------------------------------------------------------
(* Nonces *)

\* the accepted vote commands of state index i, in the order they were handled
RECURSIVE AcceptedFor(_, _)
AcceptedFor(accepted, i) ==
  IF accepted = <<>> THEN <<>>
  ELSE (IF Head(accepted).command.stateIndex = i THEN <<Head(accepted)>> ELSE <<>>)
       \o AcceptedFor(Tail(accepted), i)

\* the nonce of every ballot counts the vote commands accepted for its state
\* index, and these carry the nonces 1, 2, 3, ... in the order they were handled
NoncesCount(id) ==
  \A i \in 0..(Len(polls[id].ballots) - 1) :
    LET mine == AcceptedFor(hist[id].accepted, i) IN
    /\ polls[id].ballots[i + 1].nonce = Len(mine)
    /\ \A k \in DOMAIN mine : mine[k].command.nonce = k

\* of two accepted messages of one voter the one published later carries the
\* smaller nonce
LaterCarriesSmaller(id) ==
  \A a, b \in DOMAIN hist[id].accepted :
    LET x == hist[id].accepted[a]
        y == hist[id].accepted[b]
    IN x.command.stateIndex = y.command.stateIndex /\ x.idx > y.idx =>
         x.command.nonce < y.command.nonce

\* C38: in every state the nonce of ballots[i] is the number of vote commands
\* accepted so far for state index i, the accepted commands of a voter carry
\* the nonces 1, 2, 3, ... in the order they are processed, and of two accepted
\* messages of one voter the one appended later carries the smaller nonce
C38_NoncesCountAccepted ==
  \A id \in DOMAIN polls : NoncesCount(id) /\ LaterCarriesSmaller(id)

\* the part of it that counts
C38_NoncesCount ==
  \A id \in DOMAIN polls : NoncesCount(id)

\* all of it for the polls that took no message after their first
\* processMessages call
C38_NoncesOnTimelyMessages ==
  \A id \in DOMAIN polls :
    hist[id].lateIngests = 0 => NoncesCount(id) /\ LaterCarriesSmaller(id)

----------------------------------------------------------------------------
(* Voice credits *)

\* the credits the ballot of state index i has spent
SpentBy(p, i) == SumSeq(SquaredVotes(p.ballots[i + 1].votes))

\* the amounts of the topup applications in credited that name state index i
RECURSIVE AmountsFor(_, _)
AmountsFor(credited, i) ==
  IF credited = <<>> THEN 0
  ELSE (IF Head(credited).command.stateIndex = i THEN Head(credited).command.amount ELSE 0)
       + AmountsFor(Tail(credited), i)

\* the applications in credited without those of a message applied before
RECURSIVE OncePerMessage(_)
OncePerMessage(credited) ==
  IF credited = <<>> THEN <<>>
  ELSE LET n == Len(credited)
           front == SubSeq(credited, 1, n - 1)
       IN OncePerMessage(front)
          \o (IF \E k \in DOMAIN front : front[k].idx = credited[n].idx
              THEN <<>> ELSE <<credited[n]>>)

\* C39: after the snapshot, for every state index i >= 1 the balance of
\* stateLeaves[i] plus the squared votes of ballots[i] equals the balance
\* snapshotted for i plus the amounts of the topup messages applied to i so far
C39_CreditsConserved ==
  \A id \in DOMAIN polls :
    polls[id].stateCopied =>
      \A i \in 1..(Len(polls[id].stateLeaves) - 1) :
        polls[id].stateLeaves[i + 1].voiceCreditBalance + SpentBy(polls[id], i)
          = hist[id].snapshot[i + 1].voiceCreditBalance
            + AmountsFor(OncePerMessage(hist[id].credited), i)

\* the same with a topup message counted every time it is applied
C39_CreditsConservedPerApplication ==
  \A id \in DOMAIN polls :
    polls[id].stateCopied =>
      \A i \in 1..(Len(polls[id].stateLeaves) - 1) :
        polls[id].stateLeaves[i + 1].voiceCreditBalance + SpentBy(polls[id], i)
          = hist[id].snapshot[i + 1].voiceCreditBalance
            + AmountsFor(hist[id].credited, i)

----------------------------------------------------------------------------
(* The running totals of the tally *)

\* the current tally commitment that binds the running totals the inputs
\* report as current, with the current salts of the inputs
CommitmentOfReported(inputs) ==
  Hash3(HashLeftRight(TreeRoot(TreeInsertAll(NewTree(0), inputs.currentResults)),
                      inputs.currentResultsRootSalt),
        HashLeftRight(inputs.currentSpentVoiceCreditSubtotal,
                      inputs.currentSpentVoiceCreditSubtotalSalt),
        HashLeftRight(TreeRoot(TreeInsertAll(NewTree(0), inputs.currentPerVOSpentVoiceCredits)),
                      inputs.currentPerVOSpentVoiceCreditsRootSalt))

\* every ballot tallyVotes has counted is in the poll as it was counted
CountedSoFarAsTheyAre(id) ==
  \A k \in DOMAIN hist[id].counted :
    hist[id].counted[k].ballot = polls[id].ballots[hist[id].counted[k].index + 1]

\* C40: at every tallyVotes call after the first, however processMessages and
\* tallyVotes calls on the poll interleave, the running totals the call
\* reports as current (the spent voice credit subtotal and the spent voice
\* credits per vote option) are the values its current commitments bind, which
\* it recomputes from the first numBatchesTallied * tallyBatchSize ballots
C40_TotalsMatchCommitments ==
  TallyReturned /\ out.inputs.currentTallyCommitment # ZeroCommitment =>
    out.inputs.currentTallyCommitment = CommitmentOfReported(out.inputs)

\* the same of the calls made while the ballots counted are what they were
C40_TotalsMatchOnFixedBallots ==
  (/\ TallyReturned
   /\ out.inputs.currentTallyCommitment # ZeroCommitment
   /\ CountedSoFarAsTheyAre(out.pollId)) =>
    out.inputs.currentTallyCommitment = CommitmentOfReported(out.inputs)


====
